---- MODULE Spec2Model ----
(***************************************************************************)
(* Matchmaking and room bookkeeping of princechess-server.                 *)
(*                                                                         *)
(* The router (src/main.go) pairs users through a waiting slot and an      *)
(* unbuffered rendezvous channel per time control (newMatch), and through  *)
(* invite rooms (handleInvite, handleWait, handleJoin).  One mutex rout.m  *)
(* guards the waiting slots, the invite maps, rout.count and rout.matches. *)
(* The room matcher (src/room_matcher.go) runs one listen loop per time    *)
(* control that turns registered players into Rooms.                       *)
(*                                                                         *)
(* Encoding: user ids, game ids, invite ids and channel ids are naturals;  *)
(* 0 stands for the empty string, the nil channel and the nil pointer.     *)
(* idGen.New() is a counter (nextId) that never repeats a value.           *)
(* A goroutine is a record with a pc naming the statement it is at; a      *)
(* goroutine "at" a Lock() or at a channel operation simply stays at that  *)
(* pc until the mutex is free or a partner is at the other end.            *)
(* A Lock(); ...; Unlock() section without a blocking statement inside is  *)
(* one action guarded by mutex = 0.                                        *)
(***************************************************************************)
EXTENDS Integers, FiniteSets, Sequences, TLC

\* Number of quick-match requests (handlePlay goroutines) in a run.
MaxReq == 3
\* Number of distinct session identities.
MaxUser == 2
\* Number of time controls modelled (the program has four identical ones).
NumClocks == 2

\* Number of invites created, and of handleWait and handleJoin goroutines.
MaxInvite == 1
MaxWait == 2
MaxJoin == 2

\* Number of game connections (serveGame calls, one player each), and of
\* matches already paired when the room matcher is studied on its own.
MaxPlayer == 4
MaxGame == 1

\* Number of presence subscribers (handleLivedata connections), and the
\* capacity of a subscriber's send queue (256 in the program).
MaxSub == 2
LdCap == 2

\* The match duration and the last instant of the wall clock, in ticks.
MaxTime == 3
\* The capacity of a player's chat queue (128 in the program) and the
\* number of chat messages sent in a run.
ChatCap == 2
MaxChat == 3
\* The capacity of a player's move queue, and the number of moves in a run.
MoveCap == 2
MaxMove == 3
MaxDrop == 2
MaxRejoin == 1
MaxReject == 2

Reqs == 1..MaxReq
Subs == 1..MaxSub
Players == 1..MaxPlayer
Waits == 1..MaxWait
Joins == 1..MaxJoin
Users == 1..MaxUser
Clocks == 1..NumClocks

\* Session user names; a session without one gets DEFAULT_USERNAME.
DEFAULT_USERNAME == "mistery"
Username(u) == IF u = 1 THEN "ann" ELSE IF u = 2 THEN "bob" ELSE DEFAULT_USERNAME

user(u) == [id |-> u, username |-> Username(u)]
NoUser == [id |-> 0, username |-> ""]
match(g, w, b) == [gameId |-> g, white |-> w, black |-> b]
EmptyMatch == match(0, NoUser, NoUser)
NoResult == [roomId |-> 0, color |-> "", opp |-> ""]

VARIABLES
  mutex,     \* rout.m: 0 when free, else the request holding it
  count,     \* rout.count
  matches,   \* rout.matches: game id -> match
  waiting,   \* rout.waiting1min .. waiting10min: clock -> user
  nextId,    \* next value idGen.New() returns
  req,       \* the handlePlay/newMatch goroutines
  wr,        \* rout.wr: clock -> the invite ids present in that map
  inv,       \* the inviteRoom objects the maps point to: invite id -> room
  nextCh,    \* next channel make(chan match) returns
  wait,      \* the handleWait goroutines
  join,      \* the handleJoin goroutines
  rooms,     \* rm.rooms1Min .. rooms10Min: clock -> game id -> players
  player,    \* the player objects and their serveGame goroutines
  room,      \* the Room objects created so far, in creation order
  pool,      \* the listen goroutine of each time control
  hd,        \* the two player objects of the Room studied in detail
  rm,        \* that Room: its hostGame goroutine and its fields
  now,       \* the wall clock, in ticks
  online,    \* livedataHub.online: uid -> client
  playing,   \* livedataHub.playing
  sub,       \* the livedataClient objects and their goroutines
  resp       \* the number of requests answered with an error

routerVars == <<mutex, count, matches, waiting, nextId, req>>
inviteVars == <<wr, inv, nextCh, wait, join>>
matcherVars == <<rooms, player, room, pool>>
roomVars == <<hd, rm, now>>
ldVars == <<online, playing, sub>>
vars == <<mutex, count, matches, waiting, nextId, req, wr, inv, nextCh, wait, join,
          rooms, player, room, pool, hd, rm, now, online, playing, sub,
          resp>>

\* hops counts the times the request re-entered newMatch (line 127).
IdleReq == [pc |-> "idle", uid |-> 0, clock |-> 0, gid |-> 0, hops |-> 0,
            got |-> EmptyMatch, res |-> NoResult]

\* res.kind: "paired", "cancelled", "expired", "closed" or "notfound".
IdleWait == [pc |-> "idle", uid |-> 0, id |-> 0, clock |-> 0, ch |-> 0,
             got |-> EmptyMatch,
             res |-> [kind |-> "", roomId |-> 0, color |-> "", opp |-> ""]]
IdleJoin == [pc |-> "idle", uid |-> 0, id |-> 0, clock |-> 0, ch |-> 0,
             m |-> EmptyMatch, color |-> "", res |-> NoResult]

IdlePlayer == [pc |-> "idle", userId |-> 0, gameId |-> 0, color |-> "",
               clock |-> 0, room |-> 0]
NoPlayers == [white |-> 0, black |-> 0]
Listening == [pc |-> "listen", p |-> 0, r |-> 0]

\* The two player objects a Room holds (the handles), by name.
Handles == {"p1", "p2"}

\* A player object inside a Room.  sendMove and sendChat are the buffered
\* queues, sig the set of one-slot signal channels holding a value, clock
\* whether the player's timer runs and armed the duration it was last
\* reset with; wp and rp are the writePump and readPump goroutines; frame
\* is the last chat write to the transport, had the chat messages that were
\* queued when that write's servicing began, writes the number of chat
\* writes; read is the number of messages readPump has read from the
\* connection, pend and pkind the ordinal and kind of the one it is
\* sending to the Room (0 when none), taken the ordinals of those the
\* Room received.
IdleHandle == [userId |-> 0, username |-> "", color |-> "",
               timeLeft |-> 0, lastMove |-> 0, clock |-> FALSE, armed |-> 0,
               sendMove |-> <<>>, moveClosed |-> FALSE, moveNil |-> FALSE,
               sendChat |-> <<>>, sig |-> {},
               wp |-> "idle", rp |-> "idle",
               frame |-> <<>>, had |-> <<>>, writes |-> 0,
               read |-> 0, pend |-> 0, pkind |-> "", taken |-> <<>>]

\* The Room: pc is where hostGame is ("none" before go r.hostGame()), ev the
\* signal delivery it is blocked in, last what the latest move did;
\* waitingPlayer and grace are the grace state and its timer, gone the
\* handle that disconnected last, as the Room held it at that moment, drops
\* the number of disconnects so far, rejoins that of reconnects, quiet that
\* of clock expiries taken without a notice.
NoEvent == [kind |-> "", to |-> ""]
NoMove == [turn |-> "", before |-> 0, after |-> 0, first |-> TRUE, sincePrev |-> 0,
           sinceOpp |-> 0, oppLeft |-> 0, oppReset |-> FALSE]
NoGone == [h |-> "", userId |-> 0, color |-> "", timeLeft |-> 0, lastMove |-> 0,
           fired |-> FALSE]
NoRoom == [pc |-> "none", white |-> "", black |-> "", duration |-> 0,
           ev |-> NoEvent, last |-> NoMove, cleanups |-> 0, chats |-> 0, moves |-> 0,
           waitingPlayer |-> FALSE, grace |-> "off", gone |-> NoGone, drops |-> 0,
           rejoins |-> 0, quiet |-> 0]

\* A livedataClient: pc of its goroutines, its uid, its send queue, whether
\* the queue is closed and how many times close was called on it.
IdleSub == [pc |-> "idle", uid |-> 0, send |-> <<>>, closed |-> FALSE,
            closes |-> 0]

\* newLivedataHub: nobody online, nobody playing.
InitLd ==
  /\ online = <<>>
  /\ playing = 0
  /\ sub = [c \in Subs |-> IdleSub]

InitRoomIdle ==
  /\ hd = [h \in Handles |-> IdleHandle]
  /\ rm = NoRoom
  /\ now = 0

InitMatcher ==
  /\ rooms = [t \in Clocks |-> <<>>]
  /\ player = [h \in Players |-> IdlePlayer]
  /\ room = <<>>
  /\ pool = [t \in Clocks |-> Listening]

\* main: the router as it is constructed.
InitRouter ==
  /\ wr = [t \in Clocks |-> {}]
  /\ inv = <<>>
  /\ nextCh = 1
  /\ wait = [w \in Waits |-> IdleWait]
  /\ join = [j \in Joins |-> IdleJoin]
  /\ mutex = 0
  /\ count = 0
  /\ matches = <<>>
  /\ waiting = [t \in Clocks |-> NoUser]
  /\ nextId = 1
  /\ req = [i \in Reqs |-> IdleReq]
  /\ resp = 0

Init ==
  /\ InitMatcher
  /\ InitRoomIdle
  /\ InitLd
  /\ InitRouter

SendPcs == {"sendCancel", "sendMatch"}

\* A mistaken Receiver: one channel for all time controls.
ReceiverAnyClock(t) == {j \in Reqs : req[j].pc = "select"}

\* A goroutine is receiving on the rendezvous channel of time control t.
Receiver(t) == {j \in Reqs : req[j].pc = "select" /\ req[j].clock = t}

\* rout.makeRoom: count++ and matches[m.gameId] = m under the mutex.
makeRoom(m) ==
  /\ mutex = 0
  /\ count' = count + 1
  /\ matches' = (m.gameId :> m) @@ matches

\* handlePlay: a request of identity u for time control t enters newMatch.
\* Requests are numbered in the order they arrive.
HandlePlay(i, u, t) ==
  /\ req[i].pc = "idle"
  /\ \A j \in Reqs : j < i => req[j].pc # "idle"
  /\ req' = [req EXCEPT ![i] = [@ EXCEPT !.pc = "lock", !.uid = u, !.clock = t]]
  /\ UNCHANGED <<mutex, count, matches, waiting, nextId>>
  /\ UNCHANGED <<inviteVars, matcherVars, roomVars, ldVars, resp>>

\* newMatch, Lock() and the branch on the waiting slot.
NewMatchLock(i) ==
  LET t == req[i].clock
      u == req[i].uid
  IN
  /\ req[i].pc = "lock"
  /\ mutex = 0
  /\ IF waiting[t].id = 0
       THEN \* become the waiter, Unlock(), go to the select
            /\ waiting' = [waiting EXCEPT ![t] = user(u)]
            /\ req' = [req EXCEPT ![i].pc = "select"]
            /\ UNCHANGED <<mutex, nextId>>
       ELSE IF waiting[t].id = u
         THEN \* opp <- match{} comes next, the mutex stays locked
              /\ req' = [req EXCEPT ![i].pc = "sendCancel"]
              /\ mutex' = i
              /\ UNCHANGED <<waiting, nextId>>
         ELSE \* playRoomId = idGen.New(); opp <- match{...} comes next
              /\ req' = [req EXCEPT ![i] = [@ EXCEPT !.pc = "sendMatch", !.gid = nextId]]
              /\ nextId' = nextId + 1
              /\ mutex' = i
              /\ UNCHANGED waiting
  /\ UNCHANGED <<count, matches>>
  /\ UNCHANGED <<inviteVars, matcherVars, roomVars, ldVars, resp>>

\* The waiter's 5 s timer fires while it is in the select.
DeadlineFires(i) ==
  /\ req[i].pc = "select"
  /\ req' = [req EXCEPT ![i].pc = "timeout"]
  /\ UNCHANGED <<mutex, count, matches, waiting, nextId>>
  /\ UNCHANGED <<inviteVars, matcherVars, roomVars, ldVars, resp>>

\* case <-deadline.C: Lock(); *waiting = user{}; return; Unlock().
NewMatchTimeout(i) ==
  /\ req[i].pc = "timeout"
  /\ mutex = 0
  /\ waiting' = [waiting EXCEPT ![req[i].clock] = NoUser]
  /\ req' = [req EXCEPT ![i].pc = "doneTimeout"]
  /\ UNCHANGED <<mutex, count, matches, nextId>>
  /\ UNCHANGED <<inviteVars, matcherVars, roomVars, ldVars, resp>>

\* opp <- match{} meets case match := <-opp: the stale waiter returns.
CancelRendezvous(s, r) ==
  /\ req[s].pc = "sendCancel"
  /\ r \in Receiver(req[s].clock)
  /\ req' = [req EXCEPT ![s].pc = "sentCancel",
                        ![r] = [@ EXCEPT !.pc = "doneCancelled", !.got = EmptyMatch]]
  /\ UNCHANGED <<mutex, count, matches, waiting, nextId>>
  /\ UNCHANGED <<inviteVars, matcherVars, roomVars, ldVars, resp>>

\* After the cancel: *waiting = user{}; Unlock(); return rout.newMatch(...).
NewMatchRetry(s) ==
  /\ req[s].pc = "sentCancel"
  /\ waiting' = [waiting EXCEPT ![req[s].clock] = NoUser]
  /\ mutex' = 0
  /\ req' = [req EXCEPT ![s] = [@ EXCEPT !.pc = "lock", !.hops = @ + 1]]
  /\ UNCHANGED <<count, matches, nextId>>
  /\ UNCHANGED <<inviteVars, matcherVars, roomVars, ldVars, resp>>

\* The pairing the second arrival sends (lines 130-136): only black is set.
BlackOffer(g, u) == match(g, NoUser, user(u))

\* opp <- match{gameId, black} meets case match := <-opp.
MatchRendezvous(s, r) ==
  /\ req[s].pc = "sendMatch"
  /\ r \in Receiver(req[s].clock)
  /\ req' = [req EXCEPT
       ![s].pc = "sentMatch",
       ![r] = [@ EXCEPT !.pc = "makeRoom",
                        !.got = BlackOffer(req[s].gid, req[s].uid)]]
  /\ UNCHANGED <<mutex, count, matches, waiting, nextId>>
  /\ UNCHANGED <<inviteVars, matcherVars, roomVars, ldVars, resp>>

\* After the send: oppUsername = waiting.username; *waiting = user{};
\* Unlock(); color = "black"; return.
NewMatchBlack(s) ==
  /\ req[s].pc = "sentMatch"
  /\ req' = [req EXCEPT ![s] = [@ EXCEPT
       !.pc = "doneBlack",
       !.res = [roomId |-> req[s].gid, color |-> "black",
                opp |-> waiting[req[s].clock].username]]]
  /\ waiting' = [waiting EXCEPT ![req[s].clock] = NoUser]
  /\ mutex' = 0
  /\ UNCHANGED <<count, matches, nextId>>
  /\ UNCHANGED <<inviteVars, matcherVars, roomVars, ldVars, resp>>

\* A mistaken FillWhite: the received pairing is stored as it came.
FillWhiteForgotten(m, u) == m

\* The waiter puts itself in as white (lines 106-109).
FillWhite(m, u) == [m EXCEPT !.white = user(u)]

\* The receiver: match.white = ...; rout.makeRoom(match); return gameId,
\* "white", black's name.
NewMatchWhite(r) ==
  LET m == FillWhite(req[r].got, req[r].uid) IN
  /\ req[r].pc = "makeRoom"
  /\ makeRoom(m)
  /\ req' = [req EXCEPT ![r] = [@ EXCEPT
       !.pc = "doneWhite",
       !.res = [roomId |-> m.gameId, color |-> "white",
                opp |-> m.black.username]]]
  /\ UNCHANGED <<mutex, waiting, nextId>>
  /\ UNCHANGED <<inviteVars, matcherVars, roomVars, ldVars, resp>>

NextQM ==
  \/ \E i \in Reqs, u \in Users, t \in Clocks : HandlePlay(i, u, t)
  \/ \E i \in Reqs : NewMatchLock(i)
  \/ \E i \in Reqs : DeadlineFires(i)
  \/ \E i \in Reqs : NewMatchTimeout(i)
  \/ \E s, r \in Reqs : CancelRendezvous(s, r)
  \/ \E s \in Reqs : NewMatchRetry(s)
  \/ \E s, r \in Reqs : MatchRendezvous(s, r)
  \/ \E s \in Reqs : NewMatchBlack(s)
  \/ \E r \in Reqs : NewMatchWhite(r)

SpecQM == Init /\ [][NextQM]_vars

(***************************************************************************)
(* Invites: handleInvite, handleWait, handleJoin.                          *)
(***************************************************************************)

\* The map lookup rooms[inviteId] of handleWait and handleJoin.
RoomFound(id, t) == id \in wr[t]

\* Goroutines receiving on channel c in handleWait's select.
WaitReceiver(c) == {w \in Waits : wait[w].pc = "select" /\ wait[w].ch = c}

\* handleInvite: a fresh invite id; the room is stored without a channel.
HandleInvite(u, t) ==
  /\ Cardinality(DOMAIN inv) < MaxInvite
  /\ mutex = 0
  /\ inv' = (nextId :> [clock |-> t, host |-> user(u), opp |-> 0]) @@ inv
  /\ wr' = [wr EXCEPT ![t] = @ \cup {nextId}]
  /\ nextId' = nextId + 1
  /\ UNCHANGED <<mutex, count, matches, waiting, req, nextCh, wait, join>>
  /\ UNCHANGED <<matcherVars, roomVars, ldVars, resp>>

\* handleWait up to the lookup at line 421; the lookup takes no lock.
\* Any session may ask to wait on any invite id under any clock.
WaitLookup(w, u, id, t) ==
  /\ wait[w].pc = "idle"
  /\ \A v \in Waits : v < w => wait[v].pc # "idle"
  /\ wait' = [wait EXCEPT ![w] = [@ EXCEPT
       !.uid = u, !.id = id, !.clock = t,
       !.pc = IF RoomFound(id, t) THEN "prepare" ELSE "done",
       !.res = IF RoomFound(id, t) THEN @ ELSE [@ EXCEPT !.kind = "notfound"]]]
  /\ UNCHANGED <<routerVars, wr, inv, nextCh, join>>
  /\ UNCHANGED <<matcherVars, roomVars, ldVars, resp>>

\* Lines 428-431: room.opp = make(chan match); rooms[inviteId] = room.
WaitPrepare(w) ==
  /\ wait[w].pc = "prepare"
  /\ mutex = 0
  /\ inv' = [inv EXCEPT ![wait[w].id].opp = nextCh]
  /\ nextCh' = nextCh + 1
  /\ wr' = [wr EXCEPT ![wait[w].clock] = @ \cup {wait[w].id}]
  /\ wait' = [wait EXCEPT ![w].pc = "enter"]
  /\ UNCHANGED <<routerVars, join>>
  /\ UNCHANGED <<matcherVars, roomVars, ldVars, resp>>

\* Entering the select evaluates room.opp.
WaitSelect(w) ==
  /\ wait[w].pc = "enter"
  /\ wait' = [wait EXCEPT ![w] = [@ EXCEPT !.pc = "select", !.ch = inv[wait[w].id].opp]]
  /\ UNCHANGED <<routerVars, wr, inv, nextCh, join>>
  /\ UNCHANGED <<matcherVars, roomVars, ldVars, resp>>

\* case <-deadline.C: "Time is out - Link expired".
WaitDeadline(w) ==
  /\ wait[w].pc = "select"
  /\ wait' = [wait EXCEPT ![w] = [@ EXCEPT !.pc = "cleanup", !.res.kind = "expired"]]
  /\ UNCHANGED <<routerVars, wr, inv, nextCh, join>>
  /\ UNCHANGED <<matcherVars, roomVars, ldVars, resp>>

\* case <-cancel: the host's connection failed or closed.
WaitCancel(w) ==
  /\ wait[w].pc = "select"
  /\ wait' = [wait EXCEPT ![w] = [@ EXCEPT !.pc = "cleanup", !.res.kind = "closed"]]
  /\ UNCHANGED <<routerVars, wr, inv, nextCh, join>>
  /\ UNCHANGED <<matcherVars, roomVars, ldVars, resp>>

\* A mistaken HostSide: the host always takes black.
HostSideAlwaysBlack(m, u) == [m EXCEPT !.black = user(u)]

\* The match handleWait completes with its own identity (lines 471-485):
\* the host takes the side the joiner left empty.
HostSide(m, u) ==
  IF m.white.id # 0 THEN [m EXCEPT !.black = user(u)]
                    ELSE [m EXCEPT !.white = user(u)]

\* handleWait after a pairing arrived: its color, makeRoom and the reply.
WaitMakeRoom(w) ==
  LET m == wait[w].got IN
  /\ wait[w].pc = "makeRoom"
  /\ makeRoom(HostSide(m, wait[w].uid))
  /\ wait' = [wait EXCEPT ![w] = [@ EXCEPT
       !.pc = "cleanup",
       !.res = [kind |-> "paired", roomId |-> m.gameId,
                color |-> IF m.white.id # 0 THEN "black" ELSE "white",
                opp |-> IF m.white.id # 0 THEN m.white.username
                                          ELSE m.black.username]]]
  /\ UNCHANGED <<mutex, waiting, nextId, req, wr, inv, nextCh, join>>
  /\ UNCHANGED <<matcherVars, roomVars, ldVars, resp>>

\* The deferred function of handleWait: delete(rooms, inviteId).
WaitCleanup(w) ==
  /\ wait[w].pc = "cleanup"
  /\ mutex = 0
  /\ wr' = [wr EXCEPT ![wait[w].clock] = @ \ {wait[w].id}]
  /\ wait' = [wait EXCEPT ![w].pc = "done"]
  /\ UNCHANGED <<routerVars, inv, nextCh, join>>
  /\ UNCHANGED <<matcherVars, roomVars, ldVars, resp>>

\* A mistaken IsHost: the host is treated like any other joiner.
IsHostNeverTested(id, u) == FALSE

\* "Is it the same user?" (line 565).
IsHost(id, u) == inv[id].host.id = u

\* handleJoin up to the send: the lookup at 558, the host test at 565,
\* and for another identity a fresh game id and a random color.
JoinLookup(j, u, id, t, c) ==
  /\ join[j].pc = "idle"
  /\ \A k \in Joins : k < j => join[k].pc # "idle"
  /\ IF ~RoomFound(id, t)
       THEN /\ join' = [join EXCEPT ![j] = [@ EXCEPT
                 !.uid = u, !.id = id, !.clock = t, !.pc = "doneNotFound"]]
            /\ UNCHANGED nextId
       ELSE IF IsHost(id, u)
         THEN /\ join' = [join EXCEPT ![j] = [@ EXCEPT
                   !.uid = u, !.id = id, !.clock = t, !.pc = "cancel"]]
              /\ UNCHANGED nextId
         ELSE /\ join' = [join EXCEPT ![j] = [@ EXCEPT
                   !.uid = u, !.id = id, !.clock = t, !.pc = "send", !.color = c,
                   !.m = IF c = "white" THEN match(nextId, user(u), NoUser)
                                        ELSE match(nextId, NoUser, user(u))]]
              /\ nextId' = nextId + 1
  /\ UNCHANGED <<mutex, count, matches, waiting, req, wr, inv, nextCh, wait>>
  /\ UNCHANGED <<matcherVars, roomVars, ldVars, resp>>

\* room.opp <- ...: the channel operand is evaluated, then the send blocks
\* until a receiver is in a select on that channel (never, on a nil one).
JoinEval(j) ==
  /\ join[j].pc \in {"cancel", "send"}
  /\ join' = [join EXCEPT ![j] = [@ EXCEPT
       !.pc = IF join[j].pc = "cancel" THEN "cancelling" ELSE "sending",
       !.ch = inv[join[j].id].opp]]
  /\ UNCHANGED <<routerVars, wr, inv, nextCh, wait>>
  /\ UNCHANGED <<matcherVars, roomVars, ldVars, resp>>

\* room.opp <- match{} meets handleWait's select: "You can't play against
\* yourself"; handleJoin returns without a reply body.
JoinCancelRendezvous(j, w) ==
  /\ join[j].pc = "cancelling"
  /\ join[j].ch # 0
  /\ w \in WaitReceiver(join[j].ch)
  /\ join' = [join EXCEPT ![j].pc = "doneSelf"]
  /\ wait' = [wait EXCEPT ![w] = [@ EXCEPT
       !.pc = "cleanup", !.got = EmptyMatch, !.res.kind = "cancelled"]]
  /\ UNCHANGED <<routerVars, wr, inv, nextCh>>
  /\ UNCHANGED <<matcherVars, roomVars, ldVars, resp>>

\* room.opp <- match meets handleWait's select; handleJoin then replies
\* with its color, the game id and room.host.username.
JoinRendezvous(j, w) ==
  LET m == join[j].m IN
  /\ join[j].pc = "sending"
  /\ join[j].ch # 0
  /\ w \in WaitReceiver(join[j].ch)
  /\ join' = [join EXCEPT ![j] = [@ EXCEPT
       !.pc = "doneJoined",
       !.res = [roomId |-> m.gameId, color |-> join[j].color,
                opp |-> inv[join[j].id].host.username]]]
  /\ wait' = [wait EXCEPT ![w] = [@ EXCEPT !.pc = "makeRoom", !.got = m]]
  /\ UNCHANGED <<routerVars, wr, inv, nextCh>>
  /\ UNCHANGED <<matcherVars, roomVars, ldVars, resp>>

NextInv ==
  \/ \E u \in Users, t \in Clocks : HandleInvite(u, t)
  \/ \E w \in Waits, u \in Users, id \in DOMAIN inv, t \in Clocks : WaitLookup(w, u, id, t)
  \/ \E w \in Waits : WaitPrepare(w)
  \/ \E w \in Waits : WaitSelect(w)
  \/ \E w \in Waits : WaitDeadline(w)
  \/ \E w \in Waits : WaitCancel(w)
  \/ \E w \in Waits : WaitMakeRoom(w)
  \/ \E w \in Waits : WaitCleanup(w)
  \/ \E j \in Joins, u \in Users, id \in DOMAIN inv, t \in Clocks, c \in {"white", "black"} :
        JoinLookup(j, u, id, t, c)
  \/ \E j \in Joins : JoinEval(j)
  \/ \E j \in Joins, w \in Waits : JoinCancelRendezvous(j, w)
  \/ \E j \in Joins, w \in Waits : JoinRendezvous(j, w)

SpecInv == Init /\ [][NextInv]_vars

(***************************************************************************)
(* Presence: livedataHub.run and the livedataClient goroutines.            *)
(***************************************************************************)

\* Go's integer division, which truncates toward zero.
Quot(a, b) == IF a >= 0 THEN a \div b ELSE -((-a) \div b)

\* A mistaken snapshot: the players in games are left out of the head count.
SnapshotWithoutPlaying(on, pl) ==
  [players |-> Cardinality(DOMAIN on), games |-> Quot(pl, 2)]

\* The livedata value of lines 103-106.
Snapshot(on, pl) ==
  [players |-> Cardinality(DOMAIN on) + pl, games |-> Quot(pl, 2)]

\* close(client.send).
CloseSend(s) == [s EXCEPT !.closed = TRUE, !.closes = @ + 1]

\* A mistaken Full: the hub takes every queue to have room.
FullNever(s) == FALSE

\* The send client.send <- info would not go through: the default case.
Full(s) == Len(s.send) >= LdCap

\* Lines 101-114 after one event left the hub with map on, counter pl and
\* clients cl: every client gets the snapshot, or is closed and deleted
\* when its queue is full.
Push(on, pl, cl) ==
  LET info == Snapshot(on, pl)
      full == {u \in DOMAIN on : Full(cl[on[u]])}
      hit == {on[u] : u \in DOMAIN on}
  IN
  /\ playing' = pl
  /\ online' = [u \in DOMAIN on \ full |-> on[u]]
  /\ sub' = [c \in Subs |->
       IF c \notin hit THEN cl[c]
       ELSE IF Full(cl[c]) THEN CloseSend(cl[c])
       ELSE [cl[c] EXCEPT !.send = Append(@, info)]]

\* handleLivedata: client c of session u is made and sent on hub.register;
\* case client := <-hub.register stores it under its uid.
LdRegister(c, u) ==
  /\ sub[c].pc = "idle"
  /\ \A k \in Subs : k < c => sub[k].pc # "idle"
  /\ Push((u :> c) @@ online, playing,
          [sub EXCEPT ![c] = [@ EXCEPT !.pc = "run", !.uid = u]])
  /\ UNCHANGED <<routerVars, inviteVars, matcherVars, roomVars, resp>>

\* readPump of client c ends and sends its uid on hub.unregister;
\* case uid := <-hub.unregister closes and deletes the client stored under
\* that uid, if any.
LdUnregister(c) ==
  LET u == sub[c].uid
      there == u \in DOMAIN online
  IN
  /\ sub[c].pc = "run"
  /\ Push([x \in DOMAIN online \ {u} |-> online[x]], playing,
          [k \in Subs |->
             IF k = c THEN [(IF there /\ online[u] = c THEN CloseSend(sub[k])
                                                           ELSE sub[k])
                              EXCEPT !.pc = "gone"]
             ELSE IF there /\ online[u] = k THEN CloseSend(sub[k])
             ELSE sub[k]])
  /\ UNCHANGED <<routerVars, inviteVars, matcherVars, roomVars, resp>>

\* writePump of client c: one value is received and the n = len(c.send)
\* values queued behind it go into the same write.
LdWrite(c) ==
  /\ sub[c].pc # "idle"
  /\ sub[c].send # <<>>
  /\ sub' = [sub EXCEPT ![c].send = <<>>]
  /\ UNCHANGED <<online, playing>>
  /\ UNCHANGED <<routerVars, inviteVars, matcherVars, roomVars, resp>>

\* case <-hub.startGame: a player joined a game.
HubStartGame == Push(online, playing + 1, sub)

\* case <-hub.finishGame: a game finished.
HubFinishGame == Push(online, playing - 2, sub)

\* Some serveGame call sends its join event.
LdStartGame ==
  /\ playing < MaxPlayer
  /\ HubStartGame
  /\ UNCHANGED <<routerVars, inviteVars, matcherVars, roomVars, resp>>

\* Some cleanup closure sends its finish event.
LdFinishGame ==
  /\ playing > -MaxPlayer
  /\ HubFinishGame
  /\ UNCHANGED <<routerVars, inviteVars, matcherVars, roomVars, resp>>

NextLd ==
  \/ \E c \in Subs, u \in Users : LdRegister(c, u)
  \/ \E c \in Subs : LdUnregister(c)
  \/ \E c \in Subs : LdWrite(c)
  \/ LdStartGame
  \/ LdFinishGame

SpecLd == Init /\ [][NextLd]_vars

(***************************************************************************)
(* Game connections and the room matcher: handleGame, serveGame,           *)
(* roomMatcher.listen, and the end of Room.hostGame.                       *)
(***************************************************************************)

\* delete(m, k) on a Go map.
Delete(m, k) == [x \in DOMAIN m \ {k} |-> m[x]]

\* rooms[p.gameId]: the zero players value when the key is absent.
Lookup(t, g) == IF g \in DOMAIN rooms[t] THEN rooms[t][g] ELSE NoPlayers

\* handleGame and serveGame up to the send on registerPlayerXMin: the match
\* is read from rout.matches without the mutex, the color is the side the
\* session's identity holds in it, the clock is the request's parameter.
HandleGame(h, u, g, t) ==
  /\ player[h].pc = "idle"
  /\ \A k \in Players : k < h => player[k].pc # "idle"
  /\ g \in DOMAIN matches
  /\ u \in {matches[g].white.id, matches[g].black.id}
  /\ player' = [player EXCEPT ![h] = [@ EXCEPT
       !.pc = "register", !.userId = u, !.gameId = g, !.clock = t,
       !.color = IF u = matches[g].white.id THEN "white" ELSE "black"]]
  /\ UNCHANGED <<roomVars, ldVars, resp, routerVars, inviteVars, rooms, room, pool>>

\* A mistaken Reconnecting: the test for an existing Room is left out.
ReconnectingNeverTested(pp) == FALSE

\* "See if user is reconnecting" (line 61): both sides are already there.
Reconnecting(pp) == pp.white # 0 /\ pp.black # 0

\* A mistaken BothJoined: one side is enough.
BothJoinedEither(pp) == pp.white # 0 \/ pp.black # 0

\* "Set up room if both players have joined" (line 75).
BothJoined(pp) == pp.white # 0 /\ pp.black # 0

\* listen, case p := <-register.
PoolRegister(t, h) ==
  LET g == player[h].gameId
      pp == Lookup(t, g)
      np == IF player[h].color = "white" THEN [pp EXCEPT !.white = h]
                                         ELSE [pp EXCEPT !.black = h]
  IN
  /\ pool[t].pc = "listen"
  /\ player[h].pc = "register"
  /\ player[h].clock = t
  /\ IF Reconnecting(pp)
       THEN \* reconnecting: pp.white.room.reconnect <- p comes next
            /\ pool' = [pool EXCEPT ![t] = [pc |-> "reconnect", p |-> h,
                                            r |-> player[pp.white].room]]
            /\ player' = [player EXCEPT ![h].pc = "serving"]
            /\ UNCHANGED <<rooms, room>>
       ELSE IF player[h].color \notin {"white", "black"}
         THEN \* break MatchSelector
              /\ player' = [player EXCEPT ![h].pc = "serving"]
              /\ UNCHANGED <<rooms, room, pool>>
         ELSE /\ rooms' = [rooms EXCEPT ![t] = (g :> np) @@ @]
              /\ IF BothJoined(np)
                   THEN \* r := &Room{...}; go r.hostGame()
                        /\ room' = Append(room,
                             [gameId |-> g, clock |-> t, state |-> "running",
                              white |-> np.white, black |-> np.black, p |-> h])
                        /\ player' = [k \in Players |->
                             IF k \in {np.white, np.black}
                               THEN [player[k] EXCEPT
                                       !.room = Len(room) + 1,
                                       !.pc = IF k = h THEN "serving" ELSE @]
                               ELSE player[k]]
                   ELSE /\ player' = [player EXCEPT ![h].pc = "serving"]
                        /\ UNCHANGED room
              /\ UNCHANGED pool
  /\ UNCHANGED <<roomVars, ldVars, resp, routerVars, inviteVars>>

\* The Room takes the player the pool sends on its reconnect channel.
RoomReconnect(t) ==
  /\ pool[t].pc = "reconnect"
  /\ pool[t].r \in DOMAIN room
  /\ room[pool[t].r].state = "running"
  /\ pool' = [pool EXCEPT ![t] = Listening]
  /\ UNCHANGED <<roomVars, ldVars, resp, routerVars, inviteVars, rooms, player, room>>

\* hostGame returns from its loop; the deferred functions close the move
\* queues and stop the clocks, then cleanup() blocks on finishGame <- gameId.
RoomReturn(r) ==
  /\ r \in DOMAIN room
  /\ room[r].state = "running"
  /\ room' = [room EXCEPT ![r].state = "finishing"]
  /\ UNCHANGED <<roomVars, ldVars, resp, routerVars, inviteVars, rooms, player, pool>>

\* listen, case gameId := <-finishGame: delete(rooms, gameId).
PoolFinish(t, r) ==
  /\ pool[t].pc = "listen"
  /\ r \in DOMAIN room
  /\ room[r].state = "finishing"
  /\ room[r].clock = t
  /\ rooms' = [rooms EXCEPT ![t] = Delete(@, room[r].gameId)]
  /\ room' = [room EXCEPT ![r].state = "cleanup"]
  /\ UNCHANGED <<roomVars, ldVars, resp, routerVars, inviteVars, player, pool>>

\* p.cleanup(), the closure of handleGame: Lock(); delete(rout.matches,
\* gameId); Unlock(); the send on ldHub.finishGame comes next.
RoomCleanup(r) ==
  /\ r \in DOMAIN room
  /\ room[r].state = "cleanup"
  /\ mutex = 0
  /\ matches' = Delete(matches, room[r].gameId)
  /\ room' = [room EXCEPT ![r].state = "notify"]
  /\ UNCHANGED <<mutex, count, waiting, nextId, req, inviteVars, rooms, player, pool,
               roomVars, ldVars, resp>>

\* rout.ldHub.finishGame <- match meets the hub's case <-hub.finishGame.
RoomNotify(r) ==
  /\ r \in DOMAIN room
  /\ room[r].state = "notify"
  /\ HubFinishGame
  /\ room' = [room EXCEPT ![r].state = "ended"]
  /\ UNCHANGED <<routerVars, inviteVars, rooms, player, pool, roomVars, resp>>

\* The end of serveGame: the pumps are started and the join event is sent
\* to the hub.
PlayerJoin(h) ==
  /\ player[h].pc = "serving"
  /\ HubStartGame
  /\ player' = [player EXCEPT ![h].pc = "joined"]
  /\ UNCHANGED <<routerVars, inviteVars, rooms, room, pool, roomVars, resp>>

NextPool ==
  \/ \E h \in Players, u \in Users, g \in DOMAIN matches, t \in Clocks : HandleGame(h, u, g, t)
  \/ \E t \in Clocks, h \in Players : PoolRegister(t, h)
  \/ \E t \in Clocks : RoomReconnect(t)
  \/ \E r \in DOMAIN room : RoomReturn(r)
  \/ \E t \in Clocks, r \in DOMAIN room : PoolFinish(t, r)
  \/ \E r \in DOMAIN room : RoomCleanup(r)
  \/ \E r \in DOMAIN room : RoomNotify(r)
  \/ \E h \in Players : PlayerJoin(h)

\* The router after MaxGame pairings of two distinct identities have
\* completed and their handlers have returned.
InitPool ==
  /\ InitMatcher
  /\ InitRoomIdle
  /\ InitLd
  /\ wr = [t \in Clocks |-> {}]
  /\ inv = <<>>
  /\ nextCh = 1
  /\ wait = [w \in Waits |-> IdleWait]
  /\ join = [j \in Joins |-> IdleJoin]
  /\ mutex = 0
  /\ count = MaxGame
  /\ \E w, b \in Users :
       /\ w # b
       /\ matches = [g \in 1..MaxGame |-> match(g, user(w), user(b))]
  /\ waiting = [t \in Clocks |-> NoUser]
  /\ nextId = MaxGame + 1
  /\ req = [i \in Reqs |-> IdleReq]
  /\ resp = 0

SpecPool == InitPool /\ [][NextPool]_vars

(***************************************************************************)
(* One Room in detail: Room.hostGame and the pumps of its two players.     *)
(***************************************************************************)

\* The player serveGame makes for session u with color c; named tells
\* whether the session has a user name.  The clock is made stopped.
Attached(u, c, named) ==
  [IdleHandle EXCEPT !.userId = u,
                     !.username = IF named THEN Username(u) ELSE DEFAULT_USERNAME,
                     !.color = c, !.timeLeft = MaxTime,
                     !.wp = "run", !.rp = "run"]

\* The state right after the pool ran r := &Room{...}; go r.hostGame() for
\* a white player whose session has a user name and a black player whose
\* session has none.
InitRoomRun ==
  /\ InitMatcher
  /\ InitLd
  /\ InitRouter
  /\ hd = [h \in Handles |-> IF h = "p1" THEN Attached(1, "white", TRUE)
                                         ELSE Attached(2, "black", FALSE)]
  /\ rm = [NoRoom EXCEPT !.pc = "loop", !.white = "p1", !.black = "p2",
                         !.duration = MaxTime]
  /\ now = 1

\* The Room channel a readPump message goes to, by kind, and the signal
\* channel of the other player the Room passes it on to.
ReadKinds == {"drawOffer", "acceptDraw", "resign", "rematchOffer", "acceptRematch"}
SigOf(kind) ==
  CASE kind = "noTime" -> "oppRanOut"
    [] kind = "drawOffer" -> "drawOffer"
    [] kind = "acceptDraw" -> "oppAcceptedDraw"
    [] kind = "resign" -> "oppResigned"
    [] kind = "rematchOffer" -> "rematchOffer"
    [] kind = "acceptRematch" -> "oppAcceptedRematch"

\* A mistaken stopTimers: the clocks are left as they are.
stopTimersNone(H) == H

\* Room.stopTimers on handles H.
stopTimers(H) == [h \in Handles |-> [H[h] EXCEPT !.clock = FALSE]]

\* A mistaken switchColors: the players keep their sides.
switchColorsKept(white, black) ==
  [white |-> white, black |-> black,
   color |-> (white :> "white") @@ (black :> "black")]

\* switchColors: white.color = "black"; black.color = "white"; return
\* black, white.
switchColors(white, black) ==
  [white |-> black, black |-> white,
   color |-> (white :> "black") @@ (black :> "white")]

\* What follows the delivery of a signal of this kind in its case of the
\* select: the handles, starting from H, and the Room.
HandlesAfter(kind, H) ==
  IF kind \in {"acceptDraw", "resign"} THEN stopTimers(H)
  ELSE IF kind = "acceptRematch"
    THEN LET sw == switchColors(rm.white, rm.black) IN
         [h \in Handles |-> [H[h] EXCEPT !.color = sw.color[h],
                                         !.timeLeft = rm.duration,
                                         !.lastMove = 0]]
    ELSE H

\* A mistaken RoomAfter: the Room keeps its white and black as they were.
RoomAfterUnswapped(kind) == rm

RoomAfter(kind) ==
  IF kind = "acceptRematch"
    THEN LET sw == switchColors(rm.white, rm.black) IN
         [rm EXCEPT !.white = sw.white, !.black = sw.black]
    ELSE rm

\* The send r.<other>.<signal> <- true completes: the one-slot buffer of
\* handle to takes the value and the rest of the case runs.
Delivered(kind, to, H) ==
  /\ hd' = HandlesAfter(kind, [H EXCEPT ![to].sig = @ \cup {SigOf(kind)}])
  /\ rm' = [RoomAfter(kind) EXCEPT !.pc = "loop", !.ev = NoEvent]

\* The Room takes a color from one of its signal channels and sends to the
\* player of the other color; the send blocks while that buffer is full.
SignalStep(kind, c, H) ==
  LET to == IF c = "white" THEN rm.black ELSE rm.white IN
  IF c \notin {"white", "black"}
    THEN /\ rm' = [rm EXCEPT !.pc = "return"]
         /\ hd' = H
    ELSE IF SigOf(kind) \in H[to].sig
      THEN /\ rm' = [rm EXCEPT !.pc = "blocked", !.ev = [kind |-> kind, to |-> to]]
           /\ hd' = H
      ELSE Delivered(kind, to, H)

\* readPump of h reads a resign, draw or rematch message and sends p.color
\* on the Room's channel for it; the Room's select receives it.
RoomSignal(h, kind) ==
  /\ rm.pc = "loop"
  /\ hd[h].rp = "run"
  /\ SignalStep(kind, hd[h].color, hd)
  /\ UNCHANGED <<now, routerVars, inviteVars, matcherVars, ldVars, resp>>

\* The blocked send of the Room completes once the buffer has room.
RoomUnblock ==
  /\ rm.pc = "blocked"
  /\ SigOf(rm.ev.kind) \notin hd[rm.ev.to].sig
  /\ Delivered(rm.ev.kind, rm.ev.to, hd)
  /\ UNCHANGED <<now, routerVars, inviteVars, matcherVars, ldVars, resp>>

\* writePump of h takes a signal and writes it (sendTextMsg); a failed
\* write ends the pump.
WpSignal(h, k, ok) ==
  /\ hd[h].wp = "run"
  /\ k \in hd[h].sig
  /\ hd' = [hd EXCEPT ![h] = [@ EXCEPT !.sig = @ \ {k},
                                       !.wp = IF ok THEN "run" ELSE "done"]]
  /\ UNCHANGED <<rm, now, routerVars, inviteVars, matcherVars, ldVars, resp>>

\* writePump of h: case <-p.clock.C; p.room.broadcastNoTime <- p.color
\* comes next.
WpClock(h) ==
  /\ hd[h].wp = "run"
  /\ hd[h].clock
  /\ hd' = [hd EXCEPT ![h] = [@ EXCEPT !.wp = "noTime", !.clock = FALSE]]
  /\ UNCHANGED <<rm, now, routerVars, inviteVars, matcherVars, ldVars, resp>>

\* The Room receives the color from broadcastNoTime; the pump then writes
\* its own notice.
RoomNoTime(h, ok) ==
  /\ rm.pc = "loop"
  /\ hd[h].wp = "noTime"
  /\ SignalStep("noTime", hd[h].color,
                [hd EXCEPT ![h].wp = IF ok THEN "run" ELSE "done"])
  /\ UNCHANGED <<now, routerVars, inviteVars, matcherVars, ldVars, resp>>

\* case <-r.stopClocks: a player reported the game over.
RoomStopClocks(h) ==
  /\ rm.pc = "loop"
  /\ hd[h].rp = "run"
  /\ hd' = stopTimers(hd)
  /\ UNCHANGED <<rm, now, routerVars, inviteVars, matcherVars, ldVars, resp>>

\* case <-r.unregister: return.
RoomUnregister ==
  /\ rm.pc = "loop"
  /\ rm' = [rm EXCEPT !.pc = "return"]
  /\ UNCHANGED <<hd, now, routerVars, inviteVars, matcherVars, ldVars, resp>>

\* The deferred closure of hostGame: close both move queues that are not
\* nil, stop both clocks.
RoomDefer ==
  /\ rm.pc = "return"
  /\ hd' = stopTimers([h \in Handles |->
             [hd[h] EXCEPT !.moveClosed = IF hd[h].moveNil THEN @ ELSE TRUE]])
  /\ rm' = [rm EXCEPT !.pc = "cleanup"]
  /\ UNCHANGED <<now, routerVars, inviteVars, matcherVars, ldVars, resp>>

\* defer r.cleanup(), which runs last.
RoomCallCleanup ==
  /\ rm.pc = "cleanup"
  /\ rm' = [rm EXCEPT !.pc = "done", !.cleanups = @ + 1]
  /\ UNCHANGED <<hd, now, routerVars, inviteVars, matcherVars, ldVars, resp>>

\* A mistaken CanSend: the push always succeeds.
CanSendAlways(p) == TRUE

\* A non-blocking send on p's move queue succeeds: the field is not nil
\* and the buffer has room.
CanSend(p) == ~p.moveNil /\ Len(p.sendMove) < MoveCap

\* A mistaken Elapsed: the time since the mover's own previous move.
ElapsedSinceOwnMove(turn, opp) ==
  IF turn.lastMove # 0 /\ opp.lastMove # 0 THEN now - turn.lastMove ELSE 0

\* Lines 252-258: zero unless both sides have moved, else the time since
\* the opponent's last move.
Elapsed(turn, opp) ==
  IF turn.lastMove # 0 /\ opp.lastMove # 0 THEN now - opp.lastMove ELSE 0

\* A mistaken Decorated: the two clock fields are exchanged.
DecoratedSwapped(turnLeft, oppLeft) ==
  [kind |-> "move", oppClock |-> oppLeft, clock |-> turnLeft]

\* Lines 277-278: the move as forwarded, with oppClock the mover's time
\* left and clock the opponent's.
Decorated(turnLeft, oppLeft) ==
  [kind |-> "move", oppClock |-> turnLeft, clock |-> oppLeft]

\* case move := <-r.broadcastMove: readPump of h read a move whose Color
\* field is c.
RoomMove(h, c) ==
  /\ rm.pc = "loop"
  /\ hd[h].rp = "run"
  /\ rm.moves < MaxMove
  /\ IF c \notin {"w", "b"}
       THEN UNCHANGED <<hd, rm>>
       ELSE
         LET turn == IF c = "w" THEN rm.white ELSE rm.black
             opp == IF c = "w" THEN rm.black ELSE rm.white
             left == hd[turn].timeLeft - Elapsed(hd[turn], hd[opp])
             oppReset == hd[opp].lastMove # 0
             H1 == [hd EXCEPT
                      ![opp] = [@ EXCEPT !.clock = IF oppReset THEN TRUE ELSE @,
                                         !.armed = IF oppReset THEN hd[opp].timeLeft ELSE @],
                      ![turn] = [@ EXCEPT !.lastMove = now, !.timeLeft = left,
                                          !.clock = FALSE]]
             payload == Decorated(left, hd[opp].timeLeft)
             update == [kind |-> "clock", oppClock |-> hd[opp].timeLeft, clock |-> left]
             H2 == [H1 EXCEPT ![opp].sendMove = Append(@, payload)]
             done == [turn |-> turn, before |-> hd[turn].timeLeft, after |-> left,
                      first |-> hd[turn].lastMove = 0,
                      sincePrev |-> IF hd[turn].lastMove = 0 THEN 0
                                    ELSE now - hd[turn].lastMove,
                      sinceOpp |-> IF oppReset THEN now - hd[opp].lastMove ELSE 0,
                      oppLeft |-> hd[opp].timeLeft, oppReset |-> oppReset]
         IN
         IF ~CanSend(H1[opp])
           THEN /\ hd' = H1
                /\ rm' = [rm EXCEPT !.pc = "return", !.last = done, !.moves = @ + 1]
           ELSE IF ~CanSend(H2[turn])
             THEN /\ hd' = H2
                  /\ rm' = [rm EXCEPT !.pc = "return", !.last = done, !.moves = @ + 1]
             ELSE /\ hd' = [H2 EXCEPT ![turn].sendMove = Append(@, update)]
                  /\ rm' = [rm EXCEPT !.last = done, !.moves = @ + 1]
  /\ UNCHANGED <<now, routerVars, inviteVars, matcherVars, ldVars, resp>>

\* writePump of h: case move, ok := <-p.sendMove with a value; a failed
\* write ends the pump.
WpMove(h, ok) ==
  /\ hd[h].wp = "run"
  /\ hd[h].sendMove # <<>>
  /\ hd' = [hd EXCEPT ![h] = [@ EXCEPT !.sendMove = Tail(@),
                                       !.wp = IF ok THEN "run" ELSE "done"]]
  /\ UNCHANGED <<rm, now, routerVars, inviteVars, matcherVars, ldVars, resp>>

\* writePump of h: the move queue is closed and empty: write the close
\* message and return.
WpClosed(h) ==
  /\ hd[h].wp = "run"
  /\ hd[h].sendMove = <<>>
  /\ hd[h].moveClosed
  /\ hd' = [hd EXCEPT ![h].wp = "done"]
  /\ UNCHANGED <<rm, now, routerVars, inviteVars, matcherVars, ldVars, resp>>

\* Time passes.
Tick ==
  /\ now < MaxTime
  /\ now' = now + 1
  /\ UNCHANGED <<hd, rm, routerVars, inviteVars, matcherVars, ldVars, resp>>

\* The Room's signal handling and its exit.
NextRoom ==
  \/ \E h \in Handles, kind \in ReadKinds : RoomSignal(h, kind)
  \/ RoomUnblock
  \/ \E h \in Handles : \E k \in hd[h].sig, ok \in BOOLEAN : WpSignal(h, k, ok)
  \/ \E h \in Handles : RoomStopClocks(h)
  \/ RoomUnregister
  \/ RoomDefer
  \/ RoomCallCleanup

SpecRoom == InitRoomRun /\ [][NextRoom]_vars

\* A game being played: moves, the clocks, and a rematch.
NextGame ==
  \/ Tick
  \/ \E h \in Handles, c \in {"w", "b", "x"} : RoomMove(h, c)
  \/ \E h \in Handles, ok \in BOOLEAN : WpMove(h, ok)
  \/ \E h \in Handles : WpClock(h)
  \/ \E h \in Handles, ok \in BOOLEAN : RoomNoTime(h, ok)
  \/ \E h \in Handles : RoomSignal(h, "acceptRematch")
  \/ RoomUnblock
  \/ \E h \in Handles : \E k \in hd[h].sig, ok \in BOOLEAN : WpSignal(h, k, ok)
  \/ RoomDefer
  \/ RoomCallCleanup
  \/ \E h \in Handles : WpClosed(h)

SpecGame == InitRoomRun /\ [][NextGame]_vars

(***************************************************************************)
(* Properties.                                                             *)
(***************************************************************************)

\* Request s offered the pairing that request r received.
Paired(s, r) == req[r].got.gameId # 0 /\ req[s].gid = req[r].got.gameId

PairingOutcome ==
  \A s, r \in Reqs : Paired(s, r) =>
    LET g == req[s].gid IN
    /\ req[s].uid # req[r].uid
    /\ req[s].clock = req[r].clock
    /\ req[r].pc \in {"makeRoom", "doneWhite"}
    /\ req[s].pc \in {"sentMatch", "doneBlack"}
    /\ req[r].pc = "doneWhite" =>
         /\ req[r].res = [roomId |-> g, color |-> "white",
                          opp |-> Username(req[s].uid)]
         /\ g \in DOMAIN matches
         /\ matches[g] = match(g, user(req[r].uid), user(req[s].uid))
    /\ req[s].pc = "doneBlack" =>
         req[s].res = [roomId |-> g, color |-> "black",
                       opp |-> Username(req[r].uid)]

SlotClearedOnBlackReturn ==
  \A s \in Reqs : (req[s].pc = "sentMatch" /\ req'[s].pc = "doneBlack")
                     => waiting'[req[s].clock] = NoUser

C2_EveryCallReturns ==
  \A s \in Reqs : req[s].pc \in SendPcs => Receiver(req[s].clock) # {}

\* C3: no task is at a blocking channel operation while it holds rout.m.
C3_MutexReleasedAtChannelOps ==
  \A i \in Reqs : req[i].pc \in SendPcs => mutex # i

\* Rooms of match id g in the pool of time control t whose event loop was
\* launched and whose finish the pool has not processed yet.
LiveRooms(t, g) ==
  {r \in DOMAIN room : /\ room[r].gameId = g
                       /\ room[r].clock = t
                       /\ room[r].state \in {"running", "finishing"}}

\* C4: under every sequence of registrations on a matching pool, the pool
\* has launched at most one Room for a match id whose finish it has not yet
\* processed.
C4_OneRoomPerMatch ==
  \A t \in Clocks, g \in 1..MaxGame : Cardinality(LiveRooms(t, g)) <= 1

\* C4, reached: a Room runs and a further registration for its match id
\* was routed to it as a reconnection instead of making a Room.
C4_ThirdRegistrationReconnects ==
  \E t \in Clocks :
    /\ pool[t].pc = "reconnect"
    /\ room[pool[t].r].state = "running"
    /\ player[pool[t].p].gameId = room[pool[t].r].gameId

\* C5: a request that finds its own identity in the waiting slot cancels
\* the earlier call: that call is in the select to take the sentinel, it
\* returns "no match", and a time control never has two waiters.
C5_SelfCancelReEnrols ==
  /\ \A s \in Reqs : req[s].pc = "sendCancel" => Receiver(req[s].clock) # {}
  /\ \A r \in Reqs : req[r].pc = "doneCancelled" =>
        req[r].res = NoResult /\ req[r].got = EmptyMatch
  /\ \A t \in Clocks : Cardinality(Receiver(t)) <= 1

\* The mutex is held by a sender nobody will receive from.
MutexLost ==
  /\ mutex # 0
  /\ req[mutex].pc \in SendPcs
  /\ Receiver(req[mutex].clock) = {}

\* C6: a waiter whose deadline fired without a pairing returns "no match":
\* it can take the mutex to clear the slot, and it ends with an empty
\* result and no match of its own.
C6_DeadlineReturnsNoMatch ==
  \A i \in Reqs :
    /\ req[i].pc = "timeout" => ~MutexLost
    /\ req[i].pc = "doneTimeout" =>
         req[i].res = NoResult /\ req[i].got = EmptyMatch

Host(id) == inv[id].host.id
Other(c) == IF c = "white" THEN "black" ELSE "white"

\* Joiner j's pairing was received by wait w, and w is the host's wait.
InvitePaired(j, w) ==
  /\ join[j].pc = "doneJoined"
  /\ wait[w].got.gameId = join[j].m.gameId
  /\ wait[w].uid = Host(join[j].id)

SelfJoinMakesNoMatch ==
  /\ \A j \in Joins :
       (join[j].pc \notin {"idle", "doneNotFound"} /\ join[j].uid = Host(join[j].id)) =>
          /\ join[j].pc \in {"cancel", "cancelling", "doneSelf"}
          /\ join[j].m = EmptyMatch
          /\ join[j].res = NoResult
  /\ \A w \in Waits : wait[w].res.kind = "cancelled" =>
          /\ wait[w].pc \in {"cleanup", "done"}
          /\ wait[w].got = EmptyMatch
          /\ wait[w].res.roomId = 0
  /\ count = Cardinality({w \in Waits : wait[w].res.kind = "paired"})
  /\ DOMAIN matches =
       {wait[w].res.roomId : w \in {v \in Waits : wait[v].res.kind = "paired"}}

SelfJoinStep ==
  \A j \in Joins : (join[j].pc = "cancelling" /\ join'[j].pc = "doneSelf") =>
     /\ matches' = matches
     /\ count' = count
     /\ \E w \in Waits : /\ wait[w].pc = "select"
                         /\ wait'[w].pc = "cleanup"
                         /\ wait'[w].res.kind = "cancelled"

\* C8: a join by the host of the invite never produces a match: it only
\* ever sends the sentinel, the step that delivers the sentinel leaves
\* rout.matches and rout.count unchanged and ends the pending wait as
\* cancelled, and matches and the counter grow only with paired waits.
C8_SelfJoinCancels == []SelfJoinMakesNoMatch /\ [][SelfJoinStep]_vars

\* C8, reached: the host joined its own invite and its wait returned
\* cancelled with no match made.
C8_HostCancelled ==
  \E j \in Joins, w \in Waits :
    /\ join[j].pc = "doneSelf"
    /\ wait[w].id = join[j].id
    /\ wait[w].uid = join[j].uid
    /\ wait[w].pc = "done"
    /\ wait[w].res.kind = "cancelled"
    /\ count = 0
    /\ DOMAIN matches = {}

\* C9: at most one join of an identity other than the host is answered
\* with a match through one invite id.
C9_OneJoinerPerInvite ==
  \A id \in DOMAIN inv :
    Cardinality({j \in Joins : join[j].pc = "doneJoined" /\ join[j].id = id}) <= 1

\* C10: once a handleWait that found its invite has returned, by whatever
\* path, the invite id is absent from the map (so a later join gets "not
\* found").
C10_InviteGoneAfterWait ==
  \A w \in Waits : (wait[w].pc = "done" /\ wait[w].res.kind # "notfound") =>
     ~RoomFound(wait[w].id, wait[w].clock)

\* The pool of time control t is in a send on the reconnect channel of a
\* Room whose hostGame has returned: nobody will ever receive it.
PoolLost(t) ==
  /\ pool[t].pc = "reconnect"
  /\ room[pool[t].r].state # "running"

CleanupNotHeldUp ==
  \A r \in DOMAIN room : room[r].state = "finishing" => ~PoolLost(room[r].clock)

CleanupLeavesNothing ==
  \A r \in DOMAIN room :
    (room[r].state = "notify" /\ room'[r].state = "ended") =>
       /\ room[r].gameId \notin DOMAIN rooms'[room[r].clock]
       /\ room[r].gameId \notin DOMAIN matches'
       /\ playing' = playing - 2

\* C11: whenever a Room's event loop has exited, its cleanup callback gets
\* to run (the pool takes its finish message), and when the callback has
\* run the match id is absent from the matching pool and from
\* rout.matches and the presence hub has been told that the match finished.
C11_RoomExitCleansUp == []CleanupNotHeldUp /\ [][CleanupLeavesNothing]_vars

\* C12: the Room never waits on a participant: it is never in a delivery
\* to a handle whose outbound task has terminated (a delivery that can
\* then never complete), so it always gets back to its select.
C12_RoomNeverBlocks ==
  ~(rm.pc = "blocked" /\ hd[rm.ev.to].wp = "done")

\* A step in which the Room handled a move whose color it accepted.
MoveStep == rm'.moves = rm.moves + 1 /\ rm'.last.turn \in Handles

OtherHandle(h) == IF h = "p1" THEN "p2" ELSE "p1"

ClockDeduction ==
  MoveStep =>
    LET t == rm'.last.turn
        o == OtherHandle(t)
        both == hd[t].lastMove # 0 /\ hd[o].lastMove # 0
    IN /\ hd'[t].timeLeft =
            hd[t].timeLeft - (IF both THEN now - hd[o].lastMove ELSE 0)
       /\ hd'[t].lastMove = now
       /\ IF hd[o].lastMove # 0
            THEN hd'[o].clock /\ hd'[o].armed = hd[o].timeLeft
            ELSE hd'[o].clock = hd[o].clock /\ hd'[o].armed = hd[o].armed

\* C13 (as amended): on a move the mover's remaining time drops by
\* exactly the time elapsed since the opponent's last move when both sides
\* have moved before, and is unchanged otherwise; the opponent's clock is
\* restarted with the opponent's remaining time only when the opponent
\* has already moved.
C13_ClockDeduction == [][ClockDeduction]_vars

\* The third of three alternating moves, the opponent having thought for
\* less than the time since the mover's own previous move.
C13_ThirdMoveDeducted ==
  /\ rm.moves = 3
  /\ ~rm.last.first
  /\ rm.last.oppReset
  /\ rm.last.sinceOpp > 0
  /\ rm.last.sincePrev > rm.last.sinceOpp
  /\ rm.last.after = rm.last.before - rm.last.sinceOpp

DeductionSinceOwnMove ==
  MoveStep =>
    LET t == rm'.last.turn
        o == OtherHandle(t)
    IN /\ (hd[t].lastMove # 0 /\ rm.last.turn = o) =>
            hd[t].timeLeft - hd'[t].timeLeft >= now - hd[t].lastMove
       /\ hd'[o].clock /\ hd'[o].armed = hd[o].timeLeft

\* C13 as stated: for alternating moves the mover's remaining time drops
\* by at least the time since that mover's own previous move, and every
\* move restarts the opponent's clock with the opponent's remaining time.
C13_DeductionSinceOwnMove == [][DeductionSinceOwnMove]_vars

\* A step in which the Room's rematch-accept delivery completed: the
\* signal entered the buffer of one of the handles.
RematchAcceptStep ==
  \E h \in Handles :
    SigOf("acceptRematch") \in hd'[h].sig /\ SigOf("acceptRematch") \notin hd[h].sig

RematchSwapsAndResets ==
  RematchAcceptStep =>
    /\ rm'.white = rm.black
    /\ rm'.black = rm.white
    /\ hd'[rm.white].color = "black"
    /\ hd'[rm.black].color = "white"
    /\ rm'.duration = rm.duration
    /\ \A h \in Handles : hd'[h].timeLeft = rm.duration /\ hd'[h].lastMove = 0

\* C14: once a rematch-accept has been delivered the handles that were
\* black and white have exchanged roles, both remaining times equal the
\* Room's original duration and both last-move timestamps are cleared.
C14_RematchSwapsAndResets == [][RematchSwapsAndResets]_vars

\* A rematch accepted after a game in which time was deducted: the first
\* white handle now plays black with a full clock.
C14_RematchAfterPlay ==
  /\ rm.white = "p2" /\ rm.black = "p1"
  /\ hd["p1"].color = "black" /\ hd["p2"].color = "white"
  /\ rm.last.after < rm.last.before
  /\ \A h \in Handles : hd[h].timeLeft = rm.duration /\ hd[h].lastMove = 0

\* ---------------------------------------------------------------------
\* Disconnect, grace period and reconnect (the Room's handling of its
\* disconnect and reconnect channels, after section 4.5 of the
\* specification; player.go and room_matcher.go supply the two ends).
\* ---------------------------------------------------------------------

\* The notation of the latest move the Room keeps for replay; moves are
\* identified by their ordinal.
PersistedPgn == rm.moves

\* The handle that takes over a slot on reconnect: the new handle's
\* transport and queues, with the clock, remaining time and last-move
\* timestamp, and the color, of the slot being replaced.
SpliceFresh(old, new) == new

Splice(old, new) ==
  [new EXCEPT !.color = old.color, !.timeLeft = old.timeLeft,
              !.lastMove = old.lastMove, !.clock = old.clock,
              !.armed = old.armed]

\* The Room after its grace timer fired.
AfterGraceTerminated(r) == [r EXCEPT !.grace = "fired", !.gone.fired = TRUE,
                                     !.pc = "return"]

AfterGrace(r) == [r EXCEPT !.grace = "fired", !.gone.fired = TRUE]

\* The single-letter color a client puts in its moves.
ColorTag(c) == IF c = "white" THEN "w" ELSE "b"

\* Moves of a client in its own color while nobody is in grace.
RoomMoveActive(h, c) == ~rm.waitingPlayer /\ RoomMove(h, c)

\* A mistaken grace test: the Room never takes itself to be in grace.
InGraceNever(r) == FALSE

\* The Room is in its grace state: one side is away.
InGrace(r) == r.waitingPlayer

\* The Room receives handle h from its disconnect channel: it stops h's
\* outbound task, and either terminates (already in grace) or notifies
\* the other side, stops the clocks, arms the grace timer and enters
\* grace; h's readPump, past its send, sets p.sendMove = nil and ends.
Disconnected(h) ==
  /\ rm.pc = "loop"
  /\ rm.drops < MaxDrop
  /\ LET o == OtherHandle(h)
         H1 == [hd EXCEPT ![h] = [@ EXCEPT !.rp = "done", !.wp = "done",
                                           !.moveNil = TRUE]]
     IN IF InGrace(rm)
          THEN /\ hd' = H1
               /\ rm' = [rm EXCEPT !.pc = "return", !.grace = "off", !.drops = @ + 1]
          ELSE /\ hd' = stopTimers([H1 EXCEPT ![o].sig = @ \cup {"oppDisconnected"}])
               /\ rm' = [rm EXCEPT !.waitingPlayer = TRUE, !.grace = "armed",
                                   !.drops = @ + 1,
                                   !.gone = [h |-> h, userId |-> hd[h].userId,
                                             color |-> hd[h].color,
                                             timeLeft |-> hd[h].timeLeft,
                                             lastMove |-> hd[h].lastMove,
                                             fired |-> FALSE]]
  /\ UNCHANGED <<now, routerVars, inviteVars, matcherVars, ldVars, resp>>

\* readPump of h fails to read and its deferred function sends p on the
\* Room's disconnect channel, where the Room receives it.
RoomDisconnect(h) ==
  /\ hd[h].rp = "run"
  /\ Disconnected(h)

\* The grace timer fires: the remaining side is told the opponent is gone.
GraceExpires ==
  /\ rm.pc = "loop"
  /\ rm.grace = "armed"
  /\ rm' = AfterGrace(rm)
  /\ hd' = [hd EXCEPT ![OtherHandle(rm.gone.h)].sig = @ \cup {"oppGone"}]
  /\ UNCHANGED <<now, routerVars, inviteVars, matcherVars, ldVars, resp>>

\* A handle made by serveGame for user u declaring color c registers with
\* the pool, which finds both colors filled and sends it on the Room's
\* reconnect channel; the Room receives it: grace ends, the handle is
\* spliced into the slot of its color, the other side is notified and
\* the persisted notation is pushed to the rejoining side.
RoomRejoin(u, c) ==
  /\ rm.pc = "loop"
  /\ rm.rejoins < MaxRejoin
  /\ LET slot == IF c = "white" THEN rm.white ELSE rm.black
         o == OtherHandle(slot)
         p == Splice(hd[slot], Attached(u, c, FALSE))
     IN hd' = [hd EXCEPT
                 ![slot] = [p EXCEPT !.sendMove =
                              <<[kind |-> "pgn", pgn |-> PersistedPgn]>>],
                 ![o].sig = @ \cup {"oppReconnected"}]
  /\ rm' = [rm EXCEPT !.waitingPlayer = FALSE, !.grace = "off", !.rejoins = @ + 1]
  /\ UNCHANGED <<now, routerVars, inviteVars, matcherVars, ldVars, resp>>

NextGrace ==
  \/ Tick
  \/ \E h \in Handles : RoomMoveActive(h, ColorTag(hd[h].color))
  \/ \E h \in Handles : WpMove(h, TRUE)
  \/ \E h \in Handles : \E k \in hd[h].sig : WpSignal(h, k, TRUE)
  \/ \E h \in Handles : RoomDisconnect(h)
  \/ GraceExpires
  \/ \E u \in Users, c \in {"white", "black"} : RoomRejoin(u, c)
  \/ RoomDefer
  \/ RoomCallCleanup
  \/ \E h \in Handles : WpClosed(h)

SpecGrace == InitRoomRun /\ [][NextGrace]_vars

\* A step in which the Room took a reconnect for the slot of the handle
\* that disconnected, from a handle of the same user.
RejoinStep ==
  /\ rm.waitingPlayer
  /\ rm'.rejoins = rm.rejoins + 1
  /\ hd'[rm.gone.h].rp = "run"
  /\ hd'[rm.gone.h].userId = rm.gone.userId

RejoinKeepsSlot ==
  RejoinStep =>
    LET p == hd'[rm.gone.h] IN
    /\ p.color = rm.gone.color
    /\ p.timeLeft = rm.gone.timeLeft
    /\ p.lastMove = rm.gone.lastMove
    /\ rm'.white = rm.white /\ rm'.black = rm.black
    /\ (IF p.color = "white" THEN rm'.white ELSE rm'.black) = rm.gone.h
    /\ p.sendMove = <<[kind |-> "pgn", pgn |-> rm.moves]>>

\* C15: when a handle of the same user takes the place of one that
\* disconnected, the slot keeps the color, remaining time and last-move
\* timestamp it had at the disconnect, and the rejoining side's move queue
\* receives the notation of the latest move.
C15_RejoinKeepsSlot == [][RejoinKeepsSlot]_vars

\* A rejoin before the grace timer fired, after a game in which the
\* rejoining side had moved and been charged time.
C15_RejoinedInGrace ==
  /\ rm.rejoins = 1 /\ ~rm.waitingPlayer /\ rm.pc = "loop"
  /\ ~rm.gone.fired
  /\ rm.gone.h \in Handles
  /\ hd[rm.gone.h].rp = "run"
  /\ hd[rm.gone.h].userId = rm.gone.userId
  /\ rm.gone.timeLeft < rm.duration /\ rm.gone.lastMove # 0
  /\ hd[rm.gone.h].timeLeft = rm.gone.timeLeft
  /\ hd[rm.gone.h].lastMove = rm.gone.lastMove
  /\ hd[rm.gone.h].sendMove = <<[kind |-> "pgn", pgn |-> 3]>>

GraceStep == rm.grace = "armed" /\ rm'.grace = "fired"

RoomTakesRejoin(h) ==
  hd[h].userId \in Users /\ ENABLED RoomRejoin(hd[h].userId, hd[h].color)

newline == "\n"

\* What writePump of p marshals for msg: the sender's own message from a
\* session without a user name is shown as from "you".
Render(p, msg) ==
  IF msg.userId = p.userId /\ msg.Username = DEFAULT_USERNAME
    THEN [msg EXCEPT !.Username = "you"]
    ELSE msg

\* n := len(p.sendChat)
QueuedNone(q) == 0

Queued(q) == Len(q)

\* The bytes written after the first message for the n messages taken
\* from q: a newline and the message, for each.
RECURSIVE Batched(_, _, _)
Batched(p, q, n) ==
  IF n = 0 THEN <<>>
  ELSE <<newline, Render(p, Head(q))>> \o Batched(p, Tail(q), n - 1)

\* readPump of h reads a chat message and sends it on broadcastChat; the
\* Room pushes it to white's queue, then to black's, and returns at the
\* first that is full.
RoomChat(h) ==
  /\ rm.pc = "loop"
  /\ hd[h].rp = "run"
  /\ rm.chats < MaxChat
  /\ LET msg == [userId |-> hd[h].userId, Username |-> hd[h].username,
                 Text |-> rm.chats + 1]
         H1 == [hd EXCEPT ![rm.white].sendChat = Append(@, msg)]
     IN IF Len(hd[rm.white].sendChat) >= ChatCap
          THEN /\ hd' = hd
               /\ rm' = [rm EXCEPT !.pc = "return", !.chats = @ + 1]
          ELSE IF Len(hd[rm.black].sendChat) >= ChatCap
            THEN /\ hd' = H1
                 /\ rm' = [rm EXCEPT !.pc = "return", !.chats = @ + 1]
            ELSE /\ hd' = [H1 EXCEPT ![rm.black].sendChat = Append(@, msg)]
                 /\ rm' = [rm EXCEPT !.chats = @ + 1]
  /\ UNCHANGED <<now, routerVars, inviteVars, matcherVars, ldVars, resp>>

\* writePump of h: case msg, ok := <-p.sendChat takes the first message.
WpChatRecv(h) ==
  /\ hd[h].wp = "run"
  /\ hd[h].sendChat # <<>>
  /\ hd' = [hd EXCEPT ![h] = [@ EXCEPT !.wp = "chat", !.had = hd[h].sendChat,
                                       !.frame = <<Render(hd[h], Head(hd[h].sendChat))>>,
                                       !.sendChat = Tail(@)]]
  /\ UNCHANGED <<rm, now, routerVars, inviteVars, matcherVars, ldVars, resp>>

\* writePump of h: NextWriter, the first message, the n messages queued
\* by now each after a newline, Close; without a writer the pump returns
\* and nothing is written.
WpChatWrite(h, ok) ==
  /\ hd[h].wp = "chat"
  /\ LET n == Queued(hd[h].sendChat) IN
     hd' = [hd EXCEPT ![h] =
              IF ok
                THEN [@ EXCEPT !.wp = "run",
                               !.frame = @ \o Batched(hd[h], hd[h].sendChat, n),
                               !.sendChat = SubSeq(@, n + 1, Len(@)),
                               !.writes = @ + 1]
                ELSE [@ EXCEPT !.wp = "done", !.frame = <<>>]]
  /\ UNCHANGED <<rm, now, routerVars, inviteVars, matcherVars, ldVars, resp>>

NextChat ==
  \/ \E h \in Handles : RoomChat(h)
  \/ \E h \in Handles : WpChatRecv(h)
  \/ \E h \in Handles, ok \in BOOLEAN : WpChatWrite(h, ok)
  \/ RoomDefer
  \/ RoomCallCleanup
  \/ \E h \in Handles : WpClosed(h)

SpecChat == InitRoomRun /\ [][NextChat]_vars

ChatWriteStep(h) == hd'[h].writes = hd[h].writes + 1

OneWriteHoldsQueue ==
  \A h \in Handles :
    ChatWriteStep(h) =>
      LET k == Len(hd[h].had) IN
      /\ k >= 1
      /\ Len(hd'[h].frame) >= 2 * k - 1
      /\ \A i \in 1..k : hd'[h].frame[2 * i - 1] = Render(hd[h], hd[h].had[i])
      /\ \A i \in 1..(k - 1) : hd'[h].frame[2 * i] = newline
      /\ hd'[h].sendChat = <<>>

\* C17: a write of the writePump that serves the chat queue is one
\* transport write that holds every message queued when the servicing
\* began, in queue order with a newline between consecutive messages, and
\* leaves none of them in the queue.
C17_OneWriteHoldsQueue ==
  /\ [][OneWriteHoldsQueue]_vars
  /\ [](\A h \in Handles : hd[h].writes <= rm.chats)

\* Black, without a user name, was written two queued messages in one
\* write, its own shown as from "you".
C17_TwoInOneWrite ==
  /\ hd["p2"].writes = 1
  /\ Len(hd["p2"].had) = 2
  /\ Len(hd["p2"].frame) = 3
  /\ hd["p2"].frame[2] = newline
  /\ hd["p2"].frame[1].Text = 1 /\ hd["p2"].frame[3].Text = 2
  /\ \E i \in {1, 3} : hd["p2"].frame[i].Username = "you"
  /\ hd["p2"].sendChat = <<>>

\* A step of the presence hub's loop: a client registered or unregistered,
\* or the playing counter moved.
HubStep ==
  \/ playing' # playing
  \/ \E c \in Subs : sub'[c].pc # sub[c].pc

\* The uids in the hub's map once the event of this step was applied and
\* before the snapshot went out.
Registered ==
  IF \E c \in Subs : sub[c].pc = "idle" /\ sub'[c].pc = "run"
    THEN DOMAIN online \cup {sub'[c].uid : c \in {k \in Subs : sub[k].pc = "idle"
                                                               /\ sub'[k].pc = "run"}}
  ELSE IF \E c \in Subs : sub[c].pc = "run" /\ sub'[c].pc = "gone"
    THEN DOMAIN online \ {sub[c].uid : c \in {k \in Subs : sub[k].pc = "run"
                                                           /\ sub'[k].pc = "gone"}}
  ELSE DOMAIN online

SnapshotPushed ==
  HubStep =>
    \A u \in DOMAIN online' :
      LET c == online'[u] IN
      sub'[c].send = Append(sub[c].send,
                            [players |-> Cardinality(Registered) + playing',
                             games |-> Quot(playing', 2)])

\* C18: every event the presence hub handles ends with each subscriber
\* that is registered after it having received one more snapshot, whose
\* head count is the number of subscribers registered when the event was
\* applied plus the playing counter, and whose game count is the playing
\* counter halved.
C18_SnapshotPushed == [][SnapshotPushed]_vars

\* Two subscribers, two players in a game: both were last sent 4 players
\* and 1 game.
C18_TwoSubscribersOneGame ==
  /\ Cardinality(DOMAIN online) = 2
  /\ playing = 2
  /\ \A u \in DOMAIN online :
       LET q == sub[online[u]].send IN
       q # <<>> /\ q[Len(q)] = [players |-> 4, games |-> 1]

\* No presence event is pending: no serveGame call is about to send its
\* join event, and no Room is between its return and its finish event.
PresenceSettled ==
  /\ \A h \in Players : player[h].pc # "serving"
  /\ \A r \in DOMAIN room : room[r].state \in {"running", "ended"}

RunningRooms == {r \in DOMAIN room : room[r].state = "running"}

\* C19: once every pending presence event has been processed, the playing
\* counter is twice the number of live Rooms, and it is never negative.
C19_PlayingCountsRooms ==
  /\ playing >= 0
  /\ PresenceSettled => playing = 2 * Cardinality(RunningRooms)

\* ---------------------------------------------------------------------
\* Request validation: what the handlers do before they touch any state
\* (main.go handlePlay, handleInvite, handleWait, handleJoin, handleGame;
\* player.go serveGame).
\* ---------------------------------------------------------------------

\* The clock values a request can carry: 0 for none, a supported one, and
\* one that no switch has a case for.
ClockInputs == {0, 1, NumClocks + 1}

\* The switch on the clock: one case per supported time control.
SupportedAny(t) == TRUE

Supported(t) == t \in Clocks

\* http.Error (or a close message) and return.
Reject ==
  /\ resp < MaxReject
  /\ resp' = resp + 1
  /\ UNCHANGED <<routerVars, inviteVars, matcherVars, roomVars, ldVars>>

\* handlePlay: an empty or unsupported clock is answered with an error.
PlayRequest(i, u, t) ==
  IF t = 0 \/ ~Supported(t) THEN Reject ELSE HandlePlay(i, u, t)

\* handleInvite: the same two tests.
InviteRequest(u, t) ==
  IF t = 0 \/ ~Supported(t) THEN Reject ELSE HandleInvite(u, t)

\* handleWait: the clock tests; the invite id, empty or not, goes to the
\* map lookup.
WaitRequest(w, u, id, t) ==
  IF t = 0 \/ ~Supported(t) THEN Reject ELSE WaitLookup(w, u, id, t)

\* handleJoin: an empty invite id, then the clock tests.
JoinRequest(j, u, id, t, c) ==
  IF id = 0 \/ t = 0 \/ ~Supported(t) THEN Reject ELSE JoinLookup(j, u, id, t, c)

\* handleGame: a session without uid, an unknown match id, a user that is
\* on neither side, an unset or non-numeric clock; serveGame: a clock with
\* no pool.
GameRequest(h, u, g, t) ==
  IF \/ u = 0
     \/ g \notin DOMAIN matches
     \/ u \notin {matches[g].white.id, matches[g].black.id}
     \/ t = 0
     \/ ~Supported(t)
    THEN Reject
    ELSE HandleGame(h, u, g, t)

\* One request of each kind, and two game connections, next to the
\* requests that are turned away.
NextReject ==
  \/ \E u \in Users, t \in ClockInputs : PlayRequest(1, u, t)
  \/ NewMatchLock(1)
  \/ \E u \in Users, t \in ClockInputs : InviteRequest(u, t)
  \/ \E u \in Users, id \in DOMAIN inv \cup {0}, t \in ClockInputs :
        WaitRequest(1, u, id, t)
  \/ \E u \in Users, id \in DOMAIN inv \cup {0}, t \in ClockInputs,
        c \in {"white", "black"} : JoinRequest(1, u, id, t, c)
  \/ \E h \in 1..2, u \in Users \cup {0}, g \in DOMAIN matches \cup {0},
        t \in ClockInputs : GameRequest(h, u, g, t)
  \/ \E t \in Clocks, h \in Players : PoolRegister(t, h)
  \/ \E h \in Players : PlayerJoin(h)

SpecReject == InitPool /\ [][NextReject]_vars

\* The state an invalid request must leave alone.
Untouched ==
  UNCHANGED <<waiting, wr, inv, matches, count, rooms, pool, room, playing>>

\* A step that answers a request with an error, or a wait with "not
\* found".
RejectStep == resp' = resp + 1

NotFoundStep ==
  \E w \in Waits : wait[w].pc = "idle" /\ wait'[w].pc = "done"

RejectionTouchesNothing ==
  /\ RejectStep => Untouched /\ UNCHANGED <<req, wait, join, player, nextId>>
  /\ NotFoundStep => Untouched

\* No handler went past its validation with a clock that is missing or
\* unsupported, or without the identifier it needs.
OnlyValidRequestsProceed ==
  /\ \A i \in Reqs : req[i].pc # "idle" => req[i].clock \in Clocks
  /\ \A id \in DOMAIN inv : inv[id].clock \in Clocks
  /\ \A w \in Waits : wait[w].pc # "idle" =>
       /\ wait[w].clock \in Clocks
       /\ wait[w].id = 0 => wait[w].pc = "done" /\ wait[w].res.kind = "notfound"
  /\ \A j \in Joins : join[j].pc # "idle" => join[j].clock \in Clocks /\ join[j].id # 0
  /\ \A h \in Players : player[h].pc # "idle" =>
       /\ player[h].clock \in Clocks
       /\ player[h].gameId \in DOMAIN matches
       /\ player[h].userId \in {matches[player[h].gameId].white.id,
                                matches[player[h].gameId].black.id}

\* C20: a request whose time control is missing or unsupported, or whose
\* invite id, match id or session identity is missing, never gets past
\* the handler's validation, and the step that answers it with an error
\* leaves the waiting slots, the invite maps, the match map, the match
\* counter, the matching pools and the presence counter as they were.
C20_InvalidRequestRejected ==
  /\ []OnlyValidRequestsProceed
  /\ [][RejectionTouchesNothing]_vars

\* Requests were rejected while a waiter sat in a slot, an invite was
\* pending, and a handle was registered with a pool.
C20_RejectedWhileBusy ==
  /\ resp = MaxReject
  /\ \E t \in Clocks : waiting[t].id # 0
  /\ DOMAIN inv # {}
  /\ \E t \in Clocks : DOMAIN rooms[t] # {}
  /\ playing > 0

\* C21: a matching pool is never left waiting on the reconnect channel of
\* a Room that has left its loop, so that every register and every finish
\* sent to the pool is received.
C21_PoolNeverStuck == \A t \in Clocks : ~PoolLost(t)

\* The step in which pool t received handle h from its register channel.
RegisterStep(t, h) ==
  /\ player[h].pc = "register"
  /\ player'[h].pc = "serving"
  /\ player[h].clock = t

RegisterRoutes ==
  \A t \in Clocks, h \in Players :
    RegisterStep(t, h) =>
      LET g == player[h].gameId
          pp == Lookup(t, g)
      IN IF pp.white # 0 /\ pp.black # 0
           THEN /\ pool'[t] = [pc |-> "reconnect", p |-> h, r |-> player[pp.white].room]
                /\ rooms' = rooms
                /\ room' = room
           ELSE LET np == rooms'[t][g] IN
                /\ pool' = pool
                /\ IF player[h].color = "white"
                     THEN np.white = h /\ np.black = pp.black
                     ELSE np.black = h /\ np.white = pp.white
                /\ IF np.white # 0 /\ np.black # 0
                     THEN /\ Len(room') = Len(room) + 1
                          /\ room'[Len(room')].state = "running"
                          /\ room'[Len(room')].white = np.white
                          /\ room'[Len(room')].black = np.black
                          /\ player'[np.white].room = Len(room')
                          /\ player'[np.black].room = Len(room')
                     ELSE room' = room

\* C22: a registration for a match id whose two slots are filled is
\* forwarded to the Room's reconnect channel and changes neither the pool
\* entry nor the Rooms; any other registration is stored in the slot of its
\* color, and a Room is launched and attached to both handles exactly when
\* that makes both slots filled.
C22_RegisterRoutes == [][RegisterRoutes]_vars

\* A Room launched by the registration of its white handle after its
\* black one, and a further registration for it being forwarded.
C22_LaunchedThenForwarded ==
  \E t \in Clocks :
    /\ pool[t].pc = "reconnect"
    /\ pool[t].r \in DOMAIN room
    /\ room[pool[t].r].p = room[pool[t].r].white
    /\ room[pool[t].r].gameId \in DOMAIN rooms[t]
    /\ rooms[t][room[pool[t].r].gameId].black = room[pool[t].r].black

\* The Rooms whose finish the pool has processed.
Finished == {r \in DOMAIN room : room[r].state \in {"cleanup", "notify", "ended"}}

\* C23: once a pool has processed the finish of a match id, its map holds
\* no entry for that match id, at that moment and ever after.
C23_FinishedStaysOut ==
  \A r \in Finished : room[r].gameId \notin DOMAIN rooms[room[r].clock]

\* The match ids that newMatch has returned to a caller.
ReturnedIds ==
  {req[i].res.roomId : i \in {k \in Reqs : req[k].pc \in {"doneBlack", "doneWhite"}}} \ {0}

\* C24: every match id a pairing call has returned is in the active-match
\* map with both identities filled in.
C24_ReturnedMatchIsActive ==
  \A g \in ReturnedIds :
    /\ g \in DOMAIN matches
    /\ matches[g].white.id # 0
    /\ matches[g].black.id # 0

\* C25: a joinInvite call that is at its send has a host waiting in the
\* select on that channel, so that the send completes and the call
\* returns.
C25_JoinSendHasReceiver ==
  \A j \in Joins :
    join[j].pc = "sending" =>
      \E w \in Waits : wait[w].pc = "select" /\ wait[w].ch = join[j].ch

Last(q) == q[Len(q)]

\* What a handled move does to the clocks and to the two move queues,
\* with restart telling when the opponent's clock is restarted.
MoveEffects(restart(_)) ==
  MoveStep =>
    LET t == rm'.last.turn
        o == OtherHandle(t)
        mine == hd'[t].timeLeft
        theirs == hd[o].timeLeft
        oppRoom == ~hd[o].moveNil /\ Len(hd[o].sendMove) < MoveCap
        myRoom == ~hd[t].moveNil /\ Len(hd[t].sendMove) < MoveCap
    IN /\ ~hd'[t].clock
       /\ hd'[o].timeLeft = theirs
       /\ IF restart(o)
            THEN hd'[o].clock /\ hd'[o].armed = theirs
            ELSE hd'[o].clock = hd[o].clock /\ hd'[o].armed = hd[o].armed
       /\ IF oppRoom
            THEN hd'[o].sendMove = Append(hd[o].sendMove,
                   [kind |-> "move", oppClock |-> mine, clock |-> theirs])
            ELSE hd'[o].sendMove = hd[o].sendMove
       /\ IF oppRoom /\ myRoom
            THEN hd'[t].sendMove = Append(hd[t].sendMove,
                   [kind |-> "clock", oppClock |-> theirs, clock |-> mine])
            ELSE hd'[t].sendMove = hd[t].sendMove

HasMoved(o) == hd[o].lastMove # 0

Always(o) == TRUE

C27_MoveNeverEndsRoom == [][MoveStep => rm'.pc = "loop"]_vars

\* ---------------------------------------------------------------------
\* Saturation: chat and moves against queues that may not be drained in
\* time (both pumps write chat, only black's takes moves), with the
\* Room's exit path running to its end once hostGame has returned.
\* ---------------------------------------------------------------------

NextSat ==
  \/ \E h \in Handles : RoomChat(h)
  \/ \E h \in Handles : RoomMove(h, ColorTag(hd[h].color))
  \/ \E h \in Handles : WpChatRecv(h)
  \/ \E h \in Handles : WpChatWrite(h, TRUE)
  \/ WpMove(rm.black, TRUE)
  \/ RoomDefer
  \/ RoomCallCleanup
  \/ \E h \in Handles : WpClosed(h)

\* A returning goroutine runs its deferred calls.
SpecSat ==
  /\ InitRoomRun
  /\ [][NextSat]_vars
  /\ WF_vars(RoomDefer)
  /\ WF_vars(RoomCallCleanup)

\* A step in which the Room handled a chat message.
ChatStep == rm'.chats = rm.chats + 1

\* The push the Room attempts on q finds it full, or nil.
ChatFull(h) == Len(hd[h].sendChat) >= ChatCap
MoveFull(h) == hd[h].moveNil \/ Len(hd[h].sendMove) >= MoveCap

SaturationReturns ==
  /\ (ChatStep /\ (ChatFull(rm.white) \/ ChatFull(rm.black))) => rm'.pc = "return"
  /\ (MoveStep /\ (MoveFull(rm'.last.turn) \/ MoveFull(OtherHandle(rm'.last.turn))))
        => rm'.pc = "return"
  /\ (ChatStep /\ ~ChatFull(rm.white) /\ ~ChatFull(rm.black)) => rm'.pc = "loop"

ExitDone ==
  rm.pc = "done" =>
    /\ rm.cleanups = 1
    /\ \A h \in Handles : hd[h].moveClosed /\ ~hd[h].clock

\* C28: a chat message or a move that finds a queue full makes hostGame
\* return; a returning hostGame closes both move queues, stops both
\* clocks and runs cleanup once.
C28_SaturationEndsRoom ==
  /\ [][SaturationReturns]_vars
  /\ (rm.pc = "return" ~> rm.pc = "done")
  /\ []ExitDone

\* The Room ended on the third chat message, black's queue being full
\* while white's had been written out.
C28_EndedOnFullChat ==
  /\ rm.pc = "done" /\ rm.cleanups = 1
  /\ rm.chats = 3 /\ rm.moves = 0
  /\ Len(hd[rm.black].sendChat) = ChatCap
  /\ hd[rm.white].writes >= 1

\* ---------------------------------------------------------------------
\* C29: who plays white after a rematch-accept.
\* ---------------------------------------------------------------------

\* Handle a sent the rematch-accept whose delivery completes in this step:
\* the notice entered the buffer of the other handle.
AcceptedBy(a) ==
  /\ SigOf("acceptRematch") \in hd'[OtherHandle(a)].sig
  /\ SigOf("acceptRematch") \notin hd[OtherHandle(a)].sig

AccepterChangesSide ==
  \A a \in Handles :
    AcceptedBy(a) =>
      /\ hd'[a].color = (IF hd[a].color = "black" THEN "white" ELSE "black")
      /\ (rm'.white = a) <=> (rm.black = a)
      /\ (rm'.black = a) <=> (rm.white = a)

\* C29 (amended): after a rematch-accept the side that sent the accept
\* holds the color opposite to the one it held before; it is the new
\* white exactly when it was black, and the new black when it was white.
C29_AccepterChangesSide == [][AccepterChangesSide]_vars

\* White accepted a rematch: the first white handle is now the Room's
\* black, the other handle is white and holds the notice.
C29_WhiteAccepted ==
  /\ rm.pc = "loop"
  /\ rm.white = "p2" /\ rm.black = "p1"
  /\ hd["p1"].color = "black" /\ hd["p2"].color = "white"
  /\ hd["p2"].sig = {SigOf("acceptRematch")}
  /\ hd["p1"].sig = {}

AccepterIsWhite ==
  \A a \in Handles :
    AcceptedBy(a) => hd'[a].color = "white" /\ rm'.white = a

\* C29 as stated: after a rematch-accept the side that sent the accept is
\* the new white, whichever color it held before.
C29_AccepterIsWhite == [][AccepterIsWhite]_vars

\* ---------------------------------------------------------------------
\* C30: the end of a game inside a Room that stays.
\* ---------------------------------------------------------------------

\* A game that is played and then ends by resignation, by an accepted
\* draw or by a player's game-over message, with a rematch offer after it.
OverKinds == {"resign", "acceptDraw", "rematchOffer"}

NextOver ==
  \/ \E h \in Handles : RoomMove(h, ColorTag(hd[h].color))
  \/ \E h \in Handles : WpMove(h, TRUE)
  \/ \E h \in Handles, kind \in OverKinds : RoomSignal(h, kind)
  \/ RoomUnblock
  \/ \E h \in Handles : \E k \in hd[h].sig, ok \in BOOLEAN : WpSignal(h, k, ok)
  \/ \E h \in Handles : RoomStopClocks(h)
  \/ RoomDefer
  \/ RoomCallCleanup
  \/ \E h \in Handles : WpClosed(h)

SpecOver == InitRoomRun /\ [][NextOver]_vars

\* The notice of this kind enters the buffer of handle h in this step.
Notified(kind, h) ==
  SigOf(kind) \in hd'[h].sig /\ SigOf(kind) \notin hd[h].sig

\* The Room completed a resign or a draw-accept: its notice was delivered.
EndNoticeStep ==
  \E h \in Handles : Notified("resign", h) \/ Notified("acceptDraw", h)

\* The Room's stop-clocks case stopped a running clock: nothing but the
\* clocks changed.
StopClocksStep ==
  /\ rm.pc = "loop" /\ rm' = rm
  /\ \E h \in Handles : hd[h].clock /\ ~hd'[h].clock
  /\ \A h \in Handles : hd'[h] = [hd[h] EXCEPT !.clock = hd'[h].clock]

ClocksOffRoomOn ==
  /\ \A h \in Handles : ~hd'[h].clock
  /\ rm'.pc = "loop"
  /\ rm'.white = rm.white /\ rm'.black = rm.black

\* The notice goes to one side only, the one the Room was sending to when
\* the send had to wait.
OneSideNotified ==
  \A h \in Handles, kind \in {"resign", "acceptDraw"} :
    Notified(kind, h) =>
      /\ hd'[OtherHandle(h)].sig = hd[OtherHandle(h)].sig
      /\ rm.pc = "blocked" => rm.ev = [kind |-> kind, to |-> h]

GameOverKeepsRoom ==
  /\ EndNoticeStep => ClocksOffRoomOn /\ OneSideNotified
  /\ StopClocksStep => ClocksOffRoomOn

\* C30: once the Room has processed a resign, a draw-accept or a
\* stop-clocks event both clocks are stopped and the Room is back in its
\* loop with the same two players; a resign and a draw-accept put their
\* notice in the buffer of the other side.
C30_GameOverKeepsRoom == [][GameOverKeepsRoom]_vars

\* Two moves were played, so that a clock ran; first white's opponent
\* holds white's resignation, the clocks are off, and the Room has since
\* passed a rematch offer to the first white.
C30_ResignedThenRematchOffer ==
  /\ rm.pc = "loop"
  /\ rm.moves = 2
  /\ \A h \in Handles : ~hd[h].clock /\ hd[h].lastMove # 0
  /\ hd["p2"].sig = {SigOf("resign")}
  /\ hd["p1"].sig = {SigOf("rematchOffer")}

\* ---------------------------------------------------------------------
\* C31: the Room's two answers to a disconnect.
\* ---------------------------------------------------------------------

\* Disconnects, the grace timer and reconnects alone, with the Room's exit
\* path running to its end once hostGame has returned.
NextDrop ==
  \/ \E h \in Handles : RoomDisconnect(h)
  \/ GraceExpires
  \/ \E u \in Users, c \in {"white", "black"} : RoomRejoin(u, c)
  \/ \E h \in Handles : \E k \in hd[h].sig : WpSignal(h, k, TRUE)
  \/ RoomDefer
  \/ RoomCallCleanup

SpecDrop == InitRoomRun /\ [][NextDrop]_vars
              /\ WF_vars(RoomDefer) /\ WF_vars(RoomCallCleanup)

\* The Room took a handle from its disconnect channel in this step.
DisconnectStep == rm'.drops = rm.drops + 1

\* The handle whose disconnect the step handled: its inbound task ended.
Dropped(h) == hd[h].rp = "run" /\ hd'[h].rp = "done"

DisconnectHandled ==
  DisconnectStep =>
    \E h \in Handles :
      /\ Dropped(h)
      /\ IF rm.waitingPlayer
           THEN rm'.pc = "return"
           ELSE /\ rm'.pc = "loop"
                /\ rm'.waitingPlayer /\ rm'.grace = "armed"
                /\ "oppDisconnected" \in hd'[OtherHandle(h)].sig
                /\ "oppDisconnected" \notin hd'[h].sig \ hd[h].sig

\* C31: a disconnect taken outside the grace state puts the notice in the
\* remaining side's buffer, arms the grace timer and leaves the Room in
\* its loop in the grace state; a disconnect taken in the grace state
\* makes hostGame return, and a returned hostGame runs cleanup, once.
C31_DisconnectHandled ==
  /\ [][DisconnectHandled]_vars
  /\ (rm.pc = "return" ~> rm.pc = "done")
  /\ [](rm.pc = "done" => rm.cleanups = 1)

\* White left, black was told and then left as well with nobody back in
\* between: the Room ended and ran cleanup.
C31_BothLeft ==
  /\ rm.pc = "done" /\ rm.cleanups = 1
  /\ rm.drops = 2 /\ rm.rejoins = 0
  /\ rm.gone.h = "p1"
  /\ "oppDisconnected" \in hd["p2"].sig
  /\ hd["p1"].rp = "done" /\ hd["p2"].rp = "done"

\* ---------------------------------------------------------------------
\* C32: a clock that expires while one side is away.
\* ---------------------------------------------------------------------

\* The Room receives the color from broadcastNoTime while in grace: it
\* sends nothing; the pump then writes its own notice.
RoomNoTimeGated(h, ok) ==
  IF InGrace(rm)
    THEN /\ rm.pc = "loop"
         /\ hd[h].wp = "noTime"
         /\ hd' = [hd EXCEPT ![h].wp = IF ok THEN "run" ELSE "done"]
         /\ rm' = [rm EXCEPT !.quiet = @ + 1]
         /\ UNCHANGED <<now, routerVars, inviteVars, matcherVars, ldVars, resp>>
    ELSE RoomNoTime(h, ok)

\* A game with clocks that expire, sides that leave and come back, and the
\* grace timer.
NextExpiry ==
  \/ \E h \in Handles : RoomMoveActive(h, ColorTag(hd[h].color))
  \/ \E h \in Handles : WpMove(h, TRUE)
  \/ \E h \in Handles : WpClock(h)
  \/ \E h \in Handles, ok \in BOOLEAN : RoomNoTimeGated(h, ok)
  \/ RoomUnblock
  \/ \E h \in Handles : \E k \in hd[h].sig : WpSignal(h, k, TRUE)
  \/ \E h \in Handles : RoomDisconnect(h)
  \/ GraceExpires
  \/ \E u \in Users, c \in {"white", "black"} : RoomRejoin(u, c)
  \/ RoomDefer
  \/ RoomCallCleanup
  \/ \E h \in Handles : WpClosed(h)

SpecExpiry == InitRoomRun /\ [][NextExpiry]_vars

\* The Room took the expiry of h's clock from broadcastNoTime in this
\* step: h's pump got past its send.
ExpiryStep(h) ==
  /\ hd[h].wp = "noTime" /\ hd'[h].wp # "noTime"
  /\ rm'.drops = rm.drops /\ rm'.rejoins = rm.rejoins

RanOutNotice(h) == "oppRanOut" \in hd'[h].sig /\ "oppRanOut" \notin hd[h].sig

ExpiryGated ==
  \A h \in Handles :
    ExpiryStep(h) =>
      IF rm.waitingPlayer
        THEN /\ \A o \in Handles : hd'[o].sig = hd[o].sig
             /\ rm' = [rm EXCEPT !.quiet = @ + 1]
        ELSE /\ ~RanOutNotice(h)
             /\ \/ RanOutNotice(OtherHandle(h)) /\ rm'.pc = "loop"
                \/ /\ rm'.pc = "blocked"
                   /\ rm'.ev = [kind |-> "noTime", to |-> OtherHandle(h)]

\* No notice of an expired clock enters a buffer while the Room is in
\* grace, whatever step it is.
NoNoticeInGrace ==
  rm.waitingPlayer => \A h \in Handles : ~RanOutNotice(h)

WroteData(h) ==
  \/ Len(hd'[h].sendMove) < Len(hd[h].sendMove)
  \/ hd'[h].writes > hd[h].writes
  \/ hd'[h].sig # hd[h].sig /\ hd'[h].sig \subseteq hd[h].sig

\* C33: a handle's outbound task performs no data write to the transport
\* once the Room has closed the handle's move queue, even with chat
\* messages, moves or signals still pending for it.
C33_NoWriteAfterClose ==
  [][\A h \in Handles : hd[h].moveClosed => ~WroteData(h)]_vars

\* ---------------------------------------------------------------------
\* C34: the end of the inbound task.
\* ---------------------------------------------------------------------

\* readPump of h leaves its loop (a failed read, a payload that does not
\* decode, or a finishRoom message) and its deferred function reaches
\* p.room.disconnect <- p, p.room being set.
RpEnds(h) ==
  /\ hd[h].rp = "run"
  /\ hd' = [hd EXCEPT ![h].rp = "disconnect"]
  /\ UNCHANGED <<rm, now, routerVars, inviteVars, matcherVars, ldVars, resp>>

\* The send on the unbuffered disconnect channel meets the Room's receive.
RoomTakesDisconnect(h) ==
  /\ hd[h].rp = "disconnect"
  /\ Disconnected(h)

\* Players who chat and leave, a Room that can be unregistered, and the
\* Room's exit path; a send that has a receiver goes through.
NextRead ==
  \/ \E h \in Handles : RpEnds(h)
  \/ \E h \in Handles : RoomTakesDisconnect(h)
  \/ \E h \in Handles : RoomChat(h)
  \/ GraceExpires
  \/ \E h \in Handles : \E k \in hd[h].sig : WpSignal(h, k, TRUE)
  \/ RoomUnregister
  \/ RoomDefer
  \/ RoomCallCleanup
  \/ \E h \in Handles : WpClosed(h)

SpecRead ==
  /\ InitRoomRun /\ [][NextRead]_vars
  /\ \A h \in Handles : WF_vars(RoomTakesDisconnect(h))
  /\ WF_vars(RoomDefer) /\ WF_vars(RoomCallCleanup)

\* C34: an inbound task that has left its read loop always ends: its
\* disconnect signal is taken and the task returns, also when the Room's
\* event loop has already exited.
C34_InboundTaskEnds ==
  \A h \in Handles : (hd[h].rp = "disconnect") ~> (hd[h].rp = "done")

\* ---------------------------------------------------------------------
\* C35: the order in which a Room takes one participant's events.
\* ---------------------------------------------------------------------

MaxMsg == 3

\* What a client sends: chat, a resignation, a rematch offer, game over.
MsgKinds == {"chat", "resign", "rematchOffer", "gameOver"}

\* A mistaken CanRead: the next message is read while the previous one is
\* still waiting for the Room.
CanReadAlways(p) == TRUE

\* readPump is at p.conn.ReadMessage(): the send of the previous message
\* has completed.
CanRead(p) == p.pend = 0

\* readPump of h reads its next message and reaches the send on the
\* Room's channel for that kind.
RpReads(h, kind) ==
  /\ hd[h].rp = "run"
  /\ CanRead(hd[h])
  /\ hd[h].read < MaxMsg
  /\ hd' = [hd EXCEPT ![h] = [@ EXCEPT !.read = @ + 1, !.pend = hd[h].read + 1,
                                       !.pkind = kind]]
  /\ UNCHANGED <<rm, now, routerVars, inviteVars, matcherVars, ldVars, resp>>

\* case msg := <-r.broadcastChat on handles H: push to white's queue,
\* then to black's, return at the first that is full.
PushChat(h, H) ==
  LET msg == [userId |-> H[h].userId, Username |-> H[h].username,
              Text |-> rm.chats + 1]
      H1 == [H EXCEPT ![rm.white].sendChat = Append(@, msg)]
  IN IF Len(H[rm.white].sendChat) >= ChatCap
       THEN /\ hd' = H
            /\ rm' = [rm EXCEPT !.pc = "return", !.chats = @ + 1]
       ELSE IF Len(H[rm.black].sendChat) >= ChatCap
         THEN /\ hd' = H1
              /\ rm' = [rm EXCEPT !.pc = "return", !.chats = @ + 1]
         ELSE /\ hd' = [H1 EXCEPT ![rm.black].sendChat = Append(@, msg)]
              /\ rm' = [rm EXCEPT !.chats = @ + 1]

\* The Room's select receives the message h's readPump is sending, and
\* runs the case of its kind; readPump goes back to reading.
RoomTakes(h) ==
  /\ rm.pc = "loop"
  /\ hd[h].pend # 0
  /\ LET H == [hd EXCEPT ![h] = [@ EXCEPT !.taken = Append(@, hd[h].pend),
                                          !.pend = 0, !.pkind = ""]]
     IN CASE hd[h].pkind = "chat" -> PushChat(h, H)
          [] hd[h].pkind = "gameOver" -> hd' = stopTimers(H) /\ rm' = rm
          [] OTHER -> SignalStep(hd[h].pkind, hd[h].color, H)
  /\ UNCHANGED <<now, routerVars, inviteVars, matcherVars, ldVars, resp>>

NextOrder ==
  \/ \E h \in Handles, kind \in MsgKinds : RpReads(h, kind)
  \/ \E h \in Handles : RoomTakes(h)
  \/ RoomUnblock
  \/ \E h \in Handles : \E k \in hd[h].sig, ok \in BOOLEAN : WpSignal(h, k, ok)
  \/ RoomDefer
  \/ RoomCallCleanup

SpecOrder == InitRoomRun /\ [][NextOrder]_vars

\* The ordinals 1..n in order.
UpTo(n) == [i \in 1..n |-> i]

\* Everything h's readPump has read has been taken by the Room, once and
\* in order, but for the one message it may still be sending.
InOrder(h) ==
  /\ hd[h].taken = UpTo(Len(hd[h].taken))
  /\ hd[h].read = Len(hd[h].taken) + (IF hd[h].pend # 0 THEN 1 ELSE 0)
  /\ hd[h].pend # 0 => hd[h].pend = hd[h].read

\* A step in which the Room takes an event takes one, from one handle,
\* and starts in the Room's select.
OneAtATime ==
  \A h \in Handles :
    hd'[h].taken # hd[h].taken =>
      /\ rm.pc = "loop"
      /\ Len(hd'[h].taken) = Len(hd[h].taken) + 1
      /\ hd'[OtherHandle(h)].taken = hd[OtherHandle(h)].taken

\* C35: the Room takes one event at a time, and it takes the messages of
\* one participant's inbound task in the order the participant sent
\* them, each once.
C35_EventsInOrder ==
  /\ [](\A h \in Handles : InOrder(h))
  /\ [][OneAtATime]_vars

\* Both participants had all their messages taken, chat among them, and
\* the Room is in its loop.
C35_AllTaken ==
  /\ hd["p1"].taken = UpTo(MaxMsg)
  /\ hd["p2"].taken = UpTo(MaxMsg)
  /\ rm.chats >= 1
  /\ rm.pc = "loop"

\* ---------------------------------------------------------------------
\* C36: the range of the remaining time.
\* ---------------------------------------------------------------------

\* A Room started for a match whose duration is one unit of time.
InitShort ==
  /\ InitMatcher
  /\ InitLd
  /\ InitRouter
  /\ hd = [h \in Handles |->
             [(IF h = "p1" THEN Attached(1, "white", TRUE)
                           ELSE Attached(2, "black", FALSE))
                EXCEPT !.timeLeft = 1]]
  /\ rm = [NoRoom EXCEPT !.pc = "loop", !.white = "p1", !.black = "p2",
                         !.duration = 1]
  /\ now = 1

\* One game on short clocks: moves, time, expiring clocks.
NextShort ==
  \/ Tick
  \/ \E h \in Handles : RoomMove(h, ColorTag(hd[h].color))
  \/ \E h \in Handles : WpMove(h, TRUE)
  \/ \E h \in Handles : WpClock(h)
  \/ \E h \in Handles, ok \in BOOLEAN : RoomNoTime(h, ok)
  \/ RoomUnblock
  \/ \E h \in Handles : \E k \in hd[h].sig : WpSignal(h, k, TRUE)
  \/ RoomDefer
  \/ RoomCallCleanup
  \/ \E h \in Handles : WpClosed(h)

SpecShort == InitShort /\ [][NextShort]_vars

\* C36: within one game each player's remaining time stays between 0 and
\* the match duration after every processed move, a move processed after
\* the mover's clock has expired included.
C36_TimeLeftInRange ==
  \A h \in Handles : 0 <= hd[h].timeLeft /\ hd[h].timeLeft <= rm.duration

\* ---------------------------------------------------------------------
\* C37: one rendezvous per time control.
\* ---------------------------------------------------------------------

\* The requests blocked in the select of newMatch for time control t.
InSelect(t) == {j \in Reqs : req[j].pc = "select" /\ req[j].clock = t}

\* At most one request waits per time control, and it is the one the
\* slot names.
OneWaiter ==
  \A t \in Clocks :
    /\ Cardinality(InSelect(t)) <= 1
    /\ \A j \in InSelect(t) : waiting[t].id = req[j].uid

\* Request s completes its send of a pairing in this step and request r
\* receives it.
PairingPassed(s, r) ==
  /\ req[s].pc = "sendMatch" /\ req'[s].pc = "sentMatch"
  /\ req[r].pc = "select" /\ req'[r].pc = "makeRoom"

PairingToNamedWaiter ==
  \A s \in Reqs :
    (req[s].pc = "sendMatch" /\ req'[s].pc = "sentMatch") =>
      \E r \in Reqs \ {s} :
        /\ PairingPassed(s, r)
        /\ req[r].clock = req[s].clock
        /\ req[r].uid = waiting[req[s].clock].id
        /\ req'[r].got.gameId = req[s].gid
        /\ \A j \in Reqs \ {s, r} : req'[j] = req[j]

\* C37: for each time control at most one request is blocked receiving on
\* the rendezvous channel, and it is the request of the identity in the
\* waiting slot; a pairing that is received is received by that request,
\* and by no other.
C37_OneRendezvous == []OneWaiter /\ [][PairingToNamedWaiter]_vars

\* A pairing has just been received on the first time control while a
\* request waits on the second.
C37_PairedBesideWaiter ==
  \E s, r, j \in Reqs :
    /\ req[s].pc = "sentMatch" /\ req[r].pc = "makeRoom"
    /\ req[s].clock = 1 /\ req[r].clock = 1
    /\ req[r].got.gameId = req[s].gid
    /\ waiting[1].id = req[r].uid
    /\ req[j].pc = "select" /\ req[j].clock = 2

\* ---------------------------------------------------------------------
\* C38: the self-cancel-and-retry path of quick match.
\* ---------------------------------------------------------------------

\* Quick match in which every goroutine that can take a step takes it and
\* every timer fires in the end.
SpecRetry ==
  /\ Init /\ [][NextQM]_vars
  /\ \A i \in Reqs :
       /\ WF_vars(NewMatchLock(i)) /\ WF_vars(DeadlineFires(i))
       /\ WF_vars(NewMatchTimeout(i)) /\ WF_vars(NewMatchRetry(i))
       /\ WF_vars(NewMatchBlack(i)) /\ WF_vars(NewMatchWhite(i))
  /\ \A s, r \in Reqs :
       WF_vars(CancelRendezvous(s, r)) /\ WF_vars(MatchRendezvous(s, r))

\* The other requests of i's identity that have entered newMatch.
SameIdentity(i) ==
  {j \in Reqs \ {i} : req[j].pc # "idle" /\ req[j].uid = req[i].uid}

\* A request re-enters newMatch at most once for each other request of
\* its identity.
HopsBounded == \A i \in Reqs : req[i].hops <= Cardinality(SameIdentity(i))

\* C38: a request that finds its own identity in the waiting slot
\* re-enters newMatch a bounded number of times, once when one other
\* request of its identity exists, and then becomes the waiter or is
\* paired.
C38_RetryTerminates ==
  /\ []HopsBounded
  /\ \A i \in Reqs :
       (req[i].pc = "sendCancel") ~> (req[i].pc \in {"select", "doneBlack"})

\* ---------------------------------------------------------------------
\* C39: the presence hub and a subscriber that does not keep up.
\* ---------------------------------------------------------------------

\* The uids whose client registers in this step.
Registering == {sub'[c].uid : c \in {k \in Subs : sub[k].pc = "idle" /\ sub'[k].pc = "run"}}

\* A client that is in the map with a full queue when the hub handles an
\* event, and is not replaced in the map by that event, is closed and is
\* out of the map after the step.
FullIsDropped ==
  HubStep =>
    \A u \in DOMAIN online \ Registering :
      Len(sub[online[u]].send) >= LdCap =>
        /\ sub'[online[u]].closed
        /\ u \in DOMAIN online' => online'[u] # online[u]

\* Nothing is put in a closed queue, and no queue grows beyond its
\* capacity.
NoSendAfterClose ==
  \A c \in Subs :
    /\ sub[c].closed => Len(sub'[c].send) <= Len(sub[c].send)
    /\ Len(sub'[c].send) <= LdCap

\* The map holds no closed client, so the hub's next event finds only
\* queues it may send on and close.
NoClosedInMap ==
  \A u \in DOMAIN online : ~sub[online[u]].closed /\ sub[online[u]].closes = 0

\* C39: a subscriber whose queue is full when a snapshot is pushed is
\* closed and removed from the map in that same iteration; no subscriber
\* queue is closed twice or sent on after it was closed; the hub's sends
\* never wait, as no queue is sent on beyond its capacity.
C39_FullSubscriberDropped ==
  /\ [][FullIsDropped /\ NoSendAfterClose]_vars
  /\ [](\A c \in Subs : sub[c].closes <= 1)
  /\ []NoClosedInMap

\* A subscriber was dropped for a full queue while its connection is
\* still open, and the hub went on to serve the other subscriber.
C39_DroppedWhileOpen ==
  \E c, k \in Subs :
    /\ c # k
    /\ sub[c].pc = "run" /\ sub[c].closed /\ sub[c].closes = 1
    /\ Len(sub[c].send) = LdCap
    /\ sub[c].uid \notin DOMAIN online
    /\ sub[k].pc = "run" /\ ~sub[k].closed
    /\ sub[k].uid \in DOMAIN online /\ online[sub[k].uid] = k
    /\ sub[k].send # <<>>

\* ---------------------------------------------------------------------
\* C40: two connections of one identity.
\* ---------------------------------------------------------------------

\* The connection whose readPump ends in this step.
Leaving(c) == sub[c].pc = "run" /\ sub'[c].pc = "gone"

\* The end of one connection closes no queue but its own and leaves the
\* clients of the other connections in the map.
OnlyOwnHandle ==
  \A c \in Subs :
    Leaving(c) =>
      \A k \in Subs \ {c} :
        (~sub[k].closed /\ ~Full(sub[k])) =>
          /\ ~sub'[k].closed
          /\ \A u \in DOMAIN online :
               online[u] = k => u \in DOMAIN online' /\ online'[u] = k

\* A connection that has ended has its queue closed.
GoneIsClosed == \A c \in Subs : sub[c].pc = "gone" => sub[c].closed

\* C40: the end of a presence connection closes and removes only that
\* connection's own subscriber handle, so that a second live connection
\* of the same identity stays registered and goes on receiving, and a
\* subscriber that was registered is closed once its connection has
\* ended.
C40_OnlyOwnHandle == [][OnlyOwnHandle]_vars /\ []GoneIsClosed

====
